---- MODULE Spec2Model ----
(***************************************************************************)
(* Model of the clipperin job orchestration:                               *)
(*   - the FastAPI service of src/api/main.py with its in-memory job map,  *)
(*     the Celery tasks of src/api/tasks.py and the job directories;       *)
(*   - the clipper_ui backend (in-memory Job objects, background tasks);   *)
(*   - Pipeline.execute of clipperin_core over the four stages;            *)
(*   - chapter and clip detection, layout selection, smart reframe, the    *)
(*     viral score and the grouping of words into captions.                *)
(* Each part has its own variables and its own specification; a            *)
(* specification leaves the variables of the other parts unchanged.        *)
(***************************************************************************)
EXTENDS Integers, Sequences, FiniteSets, TLC

VARIABLES
    jobs_db,    \* main.py jobs_db: job id -> job record, or NoJob
    tasks,      \* Celery tasks in dispatch order; the task id is the index
    disk,       \* data_dir/jobs/<id>: the job directory and its artifacts
    nextJob,    \* number of job ids handed out by create_job so far
    deleted,    \* history: ids of the jobs delete_job removed
    last,       \* history: the last request served (op, job, HTTP code)
    ui_job,     \* clipper_ui _jobs: the Job object, or UiNoJob
    ui_bg,      \* clipper_ui background tasks in scheduling order
    ui_dir,     \* clipper_ui /data/jobs/<id>
    ui_last,    \* history: the last clipper_ui request served
    pl_job,     \* the Job handed to Pipeline.execute
    pl,         \* the position of Pipeline.execute and its result
    an,         \* the call of smart_chapter_detection / smart_detect_clips;
                \* outcomes holds what the chapter provider was seen to do
    ca,         \* the last ContentAnalyzer.analyze_chapters call
    lay,        \* the clip loop of process_selected_chapters: the options
                \* dictionary and the layout of every clip rendered so far
    rf,         \* smart_reframe_video: its locals and the frames written
    vs,         \* the last ContentAnalyzer.score_viral_potential call
    dt,         \* history: the analyze_transcript_for_clips calls made
    wl          \* the last CaptionRenderer.word_level_segments call

apiVars == <<jobs_db, tasks, disk, nextJob, deleted, last>>
uiVars == <<ui_job, ui_bg, ui_dir, ui_last>>
plVars == <<pl_job, pl>>
anVars == <<an, ca>>
rdVars == <<lay, rf, vs, dt>>
cpVars == <<wl>>
vars == <<apiVars, uiVars, plVars, anVars, rdVars, cpVars>>

----------------------------------------------------------------------------
(* Bounds *)

\* Celery tasks dispatched by the API service.
MaxTasks == 2
\* Chapters an analysis finds.
MaxChapters == 2
\* render_job tasks the clipper_ui backend schedules.
MaxRenders == 2
\* Pipeline.execute calls on one job.
MaxRuns == 2
\* Entries of the JSON array an AI provider returns.
MaxItems == 2
\* Frames smart_reframe_video reads from one clip.
MaxFrames == 7
\* Calls of analyze_transcript_for_clips in a row.
MaxCalls == 3

(* Program constants *)

max_retries == 3

\* tasks.py generate_fallback_chapters
chapter_duration == 180

\* config.py Settings
min_chapter_duration == 120
max_chapter_duration == 300

----------------------------------------------------------------------------
(* Shared vocabulary *)

\* JobStatus, in declaration order (models/job.py); main.py uses the same
\* lower-case strings.
StatusOrder ==
    <<"pending", "downloading", "transcribing", "analyzing",
      "chapters_ready", "processing", "completed", "failed">>

Rank(s) == CHOOSE i \in 1..Len(StatusOrder) : StatusOrder[i] = s

Terminal == {"completed", "failed"}

\* An id no chapter list ever holds.
UnknownChapter == MaxChapters + 1

\* Chapter ids of an analysis that found n chapters: ch_1 .. ch_n.
ChapterList(n) == [i \in 1..n |-> i]

\* The chapter_ids lists a selection request may carry.
SelectionInputs ==
    { <<>>, <<1>>, <<2, 1>>, <<1, 1>>, <<UnknownChapter>>, <<1, UnknownChapter>> }

Range(s) == { s[i] : i \in DOMAIN s }

RECURSIVE SelectSeq2(_, _)
\* [x for x in s if x in keep]
SelectSeq2(s, keep) ==
    IF s = <<>> THEN <<>>
    ELSE (IF Head(s) \in keep THEN <<Head(s)>> ELSE <<>>) \o SelectSeq2(Tail(s), keep)

----------------------------------------------------------------------------
(* The API service: job map, Celery tasks, job directories *)

\* Content of a JSON artifact that does not exist.
NoFile == <<-1>>

\* Content of a JSON artifact between open(path, "w") and the end of the
\* with block: the file exists and json.load of it raises.
Partial == <<-2>>

NoDir ==
    [exists |-> FALSE, log |-> FALSE, media |-> FALSE, chapters |-> NoFile,
     segments |-> "absent", metadata |-> "absent", clips |-> NoFile,
     suggested |-> FALSE, clipFiles |-> {}]

EmptyDir == [NoDir EXCEPT !.exists = TRUE]

\* The job ids create_job hands out.  Every handler and every task reads and
\* writes only jobs_db[job_id] and data_dir/jobs/<job_id> of its own job, so
\* jobs do not interact and the model follows one of them.
JobIds == {1}

EmptyDb == [j \in {} |-> 0]

\* A task as .delay() leaves it: queued, Celery state PENDING.
NewTask(j, kind, ids) ==
    [job |-> j, kind |-> kind, state |-> "PENDING", pc |-> "queued",
     attempt |-> 0, ids |-> ids, chapters |-> <<>>, idx |-> 0,
     clips |-> <<>>, progress |-> 0, result |-> "none"]

\* self.update_state(state=s, meta={"progress": p})
Publish(task, s, p) ==
    [task EXCEPT !.state = s, !.progress = p]

\* A task that has ended: its arguments and locals are gone, and the result
\* replaces the meta of the last published state.
Ended(task) ==
    [task EXCEPT !.pc = "done", !.attempt = 0, !.idx = 0, !.ids = <<>>, !.progress = 0]

\* An except block that swallows the error: the task carries on with the
\* next chapter.
FailAndGoOn(task) == [task EXCEPT !.pc = "render"]

\* except Exception: log_progress; update_state(FAILED); raise.  Celery then
\* records FAILURE.
Fail(task) == [Ended(task) EXCEPT !.state = "FAILURE", !.result = "failed"]

\* The job directory is gone: the filesystem access raises, and so does the
\* log_progress of the except block, before FAILED is published.  Celery
\* records FAILURE.
Crash(task) == [Ended(task) EXCEPT !.state = "FAILURE", !.result = "crashed"]

WorkerEvent == [op |-> "worker", job |-> 0, code |-> 0]

WorkerFrame ==
    /\ last' = WorkerEvent
    /\ UNCHANGED <<jobs_db, nextJob, deleted>>
    /\ UNCHANGED <<uiVars, plVars, anVars, rdVars, cpVars>>

TaskIds == DOMAIN tasks

DirOf(t) == disk[tasks[t].job]

SetTask(t, rec) == tasks' = [tasks EXCEPT ![t] = rec]

SetDir(t, rec) == disk' = [disk EXCEPT ![tasks[t].job] = rec]

\* os.makedirs(job_dir, exist_ok=True), then the first log_progress calls.
MakeDirs(d) == IF d.exists THEN [d EXCEPT !.log = TRUE] ELSE [EmptyDir EXCEPT !.log = TRUE]

\* process_video / process_video_phase1 up to update_state(DOWNLOADING).
WorkerStart(t) ==
    /\ tasks[t].kind \in {"single", "phase1"}
    /\ tasks[t].pc = "queued"
    /\ SetDir(t, MakeDirs(DirOf(t)))
    /\ SetTask(t, [Publish(tasks[t], "DOWNLOADING", 10) EXCEPT !.pc = "download"])
    /\ WorkerFrame

\* The retry loop as `while True`: a failed attempt is always retried.
DownloadAttemptUnbounded(task, d, ok) ==
    IF ~d.exists THEN Crash(task)
    ELSE IF ok THEN [task EXCEPT !.pc = "transcribe", !.attempt = 0]
    ELSE [task EXCEPT !.attempt = @ + 1]

\* One iteration of the download retry loop.
DownloadAttempt(task, d, ok) ==
    IF ~d.exists THEN Crash(task)
    ELSE IF ok THEN [task EXCEPT !.pc = "transcribe", !.attempt = 0]
    ELSE IF task.attempt < max_retries - 1 THEN [task EXCEPT !.attempt = @ + 1]
    ELSE Fail(task)

WorkerDownload(t) ==
    /\ tasks[t].kind \in {"single", "phase1"}
    /\ tasks[t].pc = "download"
    /\ \E ok \in BOOLEAN :
        /\ SetTask(t, DownloadAttempt(tasks[t], DirOf(t), ok))
        /\ SetDir(t, IF DirOf(t).exists /\ ok THEN [DirOf(t) EXCEPT !.media = TRUE]
                     ELSE DirOf(t))
    /\ WorkerFrame

\* meta progress of update_state(TRANSCRIBING): 30 in phase 1, 40 in process_video.
TranscribingProgress(kind) == IF kind = "phase1" THEN 30 ELSE 40

\* update_state(TRANSCRIBING), then the log_progress that follows it.
WorkerPublishTranscribing(t) ==
    /\ tasks[t].kind \in {"single", "phase1"}
    /\ tasks[t].pc = "transcribe"
    /\ LET p == Publish(tasks[t], "TRANSCRIBING", TranscribingProgress(tasks[t].kind))
       IN SetTask(t, IF DirOf(t).exists THEN [p EXCEPT !.pc = "transcribing"]
                     ELSE Crash(p))
    /\ UNCHANGED disk
    /\ WorkerFrame

\* Whisper transcription and the write of input.srt.
WorkerTranscribed(t) ==
    /\ tasks[t].kind \in {"single", "phase1"}
    /\ tasks[t].pc = "transcribing"
    /\ \E ok \in BOOLEAN :
        SetTask(t, IF ~DirOf(t).exists THEN Crash(tasks[t])
                   ELSE IF ok THEN [tasks[t] EXCEPT !.pc = "analyze"]
                   ELSE Fail(tasks[t]))
    /\ UNCHANGED disk
    /\ WorkerFrame

\* process_video_phase1: update_state(ANALYZING) and smart_chapter_detection.
P1Analyze(t) ==
    /\ tasks[t].kind = "phase1"
    /\ tasks[t].pc = "analyze"
    /\ \E n \in 1..MaxChapters :
        LET p == Publish(tasks[t], "ANALYZING", 50)
        IN SetTask(t, IF DirOf(t).exists
                      THEN [p EXCEPT !.pc = "save_chapters", !.chapters = ChapterList(n)]
                      ELSE Crash(p))
    /\ UNCHANGED disk
    /\ WorkerFrame

\* One artifact write of a task at position pc: open(path, "w") when opening,
\* else json.dump and the end of the with block.  A directory removed
\* meanwhile makes open raise; a file already open is written and closed
\* without error, unlinked.
WriteStep(t, pc, next, opening, written) ==
    /\ tasks[t].pc = pc
    /\ IF DirOf(t).exists
       THEN /\ SetDir(t, written)
            /\ SetTask(t, [tasks[t] EXCEPT !.pc = next])
       ELSE /\ SetTask(t, IF opening THEN Crash(tasks[t])
                          ELSE [tasks[t] EXCEPT !.pc = next])
            /\ UNCHANGED disk
    /\ WorkerFrame

\* process_video_phase1: chapters.json is opened for writing.
P1OpenChapters(t) ==
    /\ tasks[t].kind = "phase1"
    /\ WriteStep(t, "save_chapters", "dump_chapters", TRUE,
                 [DirOf(t) EXCEPT !.chapters = Partial])

\* process_video_phase1: chapters.json is written and closed.
P1SaveChapters(t) ==
    /\ tasks[t].kind = "phase1"
    /\ WriteStep(t, "dump_chapters", "save_segments", FALSE,
                 [DirOf(t) EXCEPT !.chapters = tasks[t].chapters])

\* process_video_phase1: segments.json is opened for writing.
P1OpenSegments(t) ==
    /\ tasks[t].kind = "phase1"
    /\ WriteStep(t, "save_segments", "dump_segments", TRUE,
                 [DirOf(t) EXCEPT !.segments = "partial"])

\* process_video_phase1: segments.json is written and closed.
P1SaveSegments(t) ==
    /\ tasks[t].kind = "phase1"
    /\ WriteStep(t, "dump_segments", "save_metadata", FALSE,
                 [DirOf(t) EXCEPT !.segments = "written"])

\* process_video_phase1: metadata.json is opened for writing.
P1OpenMetadata(t) ==
    /\ tasks[t].kind = "phase1"
    /\ WriteStep(t, "save_metadata", "dump_metadata", TRUE,
                 [DirOf(t) EXCEPT !.metadata = "partial"])

\* process_video_phase1: metadata.json is written and closed.
P1SaveMetadata(t) ==
    /\ tasks[t].kind = "phase1"
    /\ WriteStep(t, "dump_metadata", "publish_ready", FALSE,
                 [DirOf(t) EXCEPT !.metadata = "written"])

\* process_video_phase1: update_state(CHAPTERS_READY, meta with the chapters).
P1PublishReady(t) ==
    /\ tasks[t].kind = "phase1"
    /\ tasks[t].pc = "publish_ready"
    /\ SetTask(t, [Publish(tasks[t], "CHAPTERS_READY", 60) EXCEPT !.pc = "return"])
    /\ UNCHANGED disk
    /\ WorkerFrame

\* process_video_phase1: the last log_progress and the return value.
P1Return(t) ==
    /\ tasks[t].kind = "phase1"
    /\ tasks[t].pc = "return"
    /\ SetTask(t, IF DirOf(t).exists
                  THEN [Ended(tasks[t]) EXCEPT !.state = "SUCCESS",
                                               !.result = "chapters_ready"]
                  ELSE Crash(tasks[t]))
    /\ UNCHANGED disk
    /\ WorkerFrame

\* process_video: clip detection and the FFmpeg loop; no state is published
\* between TRANSCRIBING and COMPLETED.
SRender(t) ==
    /\ tasks[t].kind = "single"
    /\ tasks[t].pc = "analyze"
    /\ \E ok \in BOOLEAN :
        IF ~DirOf(t).exists
        THEN /\ SetTask(t, Crash(tasks[t]))
             /\ UNCHANGED disk
        ELSE IF ok
        THEN /\ SetTask(t, [tasks[t] EXCEPT !.pc = "save", !.clips = <<1>>])
             /\ SetDir(t, [DirOf(t) EXCEPT !.clipFiles = @ \cup {1}])
        ELSE /\ SetTask(t, Fail(tasks[t]))
             /\ UNCHANGED disk
    /\ WorkerFrame

\* process_video: suggested_clips.json and update_state(COMPLETED).
SFinish(t) ==
    /\ tasks[t].kind = "single"
    /\ tasks[t].pc = "save"
    /\ IF DirOf(t).exists
       THEN /\ SetDir(t, [DirOf(t) EXCEPT !.suggested = TRUE])
            /\ SetTask(t, [Publish(tasks[t], "COMPLETED", 100) EXCEPT !.pc = "return"])
       ELSE /\ SetTask(t, Crash(tasks[t]))
            /\ UNCHANGED disk
    /\ WorkerFrame

\* process_video: the return value.
SReturn(t) ==
    /\ tasks[t].kind = "single"
    /\ tasks[t].pc = "return"
    /\ SetTask(t, [Ended(tasks[t]) EXCEPT !.state = "SUCCESS", !.result = "completed"])
    /\ UNCHANGED disk
    /\ WorkerFrame

\* The load step with the selected chapters taken in the order of the
\* request: [by_id[i] for i in chapter_ids].
P2LoadInSelectionOrder(task, d) ==
    IF ~d.exists THEN Crash(task)
    ELSE IF d.chapters \in {NoFile, Partial} \/ d.segments # "written" THEN Fail(task)
    ELSE IF SelectSeq2(task.ids, Range(d.chapters)) = <<>> THEN Fail(task)
    ELSE [task EXCEPT !.pc = "render", !.idx = 0,
                      !.chapters = SelectSeq2(task.ids, Range(d.chapters))]

\* process_selected_chapters up to the chapter loop: the saved chapters and
\* segments are loaded and the selection is filtered.
P2Load(task, d) ==
    IF ~d.exists THEN Crash(task)
    ELSE IF d.chapters \in {NoFile, Partial} \/ d.segments # "written" THEN Fail(task)
    ELSE IF SelectSeq2(d.chapters, Range(task.ids)) = <<>> THEN Fail(task)
    ELSE [task EXCEPT !.pc = "render", !.idx = 0,
                      !.chapters = SelectSeq2(d.chapters, Range(task.ids))]

P2Start(t) ==
    /\ tasks[t].kind = "phase2"
    /\ tasks[t].pc = "queued"
    /\ SetTask(t, P2Load(tasks[t], DirOf(t)))
    /\ SetDir(t, IF DirOf(t).exists THEN [DirOf(t) EXCEPT !.log = TRUE] ELSE DirOf(t))
    /\ WorkerFrame

\* "progress": 60 + int(35 * idx / total)
P2Progress(idx, total) == 60 + ((35 * idx) \div total)

\* Head of the chapter loop: update_state(PROCESSING) for chapter idx.
P2Publish(t) ==
    /\ tasks[t].kind = "phase2"
    /\ tasks[t].pc = "render"
    /\ tasks[t].idx < Len(tasks[t].chapters)
    /\ SetTask(t, IF DirOf(t).exists
                  THEN [Publish(tasks[t], "PROCESSING",
                                P2Progress(tasks[t].idx + 1, Len(tasks[t].chapters)))
                           EXCEPT !.pc = "chapter", !.idx = @ + 1]
                  ELSE Crash(tasks[t]))
    /\ UNCHANGED disk
    /\ WorkerFrame

\* process_single_chapter for chapter idx; an FFmpeg failure raises.
P2Chapter(t) ==
    /\ tasks[t].kind = "phase2"
    /\ tasks[t].pc = "chapter"
    /\ \E ok \in BOOLEAN :
        LET ch == tasks[t].chapters[tasks[t].idx] IN
        IF ~DirOf(t).exists
        THEN /\ SetTask(t, Crash(tasks[t]))
             /\ UNCHANGED disk
        ELSE IF ok
        THEN /\ SetTask(t, [tasks[t] EXCEPT !.pc = "render", !.clips = Append(@, ch)])
             /\ SetDir(t, [DirOf(t) EXCEPT !.clipFiles = @ \cup {ch}])
        ELSE /\ SetTask(t, Fail(tasks[t]))
             /\ UNCHANGED disk
    /\ WorkerFrame

\* After the loop: clips.json is opened for writing.
P2OpenClips(t) ==
    /\ tasks[t].kind = "phase2"
    /\ tasks[t].idx = Len(tasks[t].chapters)
    /\ WriteStep(t, "render", "dump_clips", TRUE,
                 [DirOf(t) EXCEPT !.clips = Partial])

\* clips.json is written and closed.
P2SaveClips(t) ==
    /\ tasks[t].kind = "phase2"
    /\ WriteStep(t, "dump_clips", "publish_completed", FALSE,
                 [DirOf(t) EXCEPT !.clips = tasks[t].clips])

\* update_state(COMPLETED, meta={"progress": 100})
P2PublishCompleted(t) ==
    /\ tasks[t].kind = "phase2"
    /\ tasks[t].pc = "publish_completed"
    /\ SetTask(t, [Publish(tasks[t], "COMPLETED", 100) EXCEPT !.pc = "return"])
    /\ UNCHANGED disk
    /\ WorkerFrame

\* The closing log_progress calls and the return value.
P2Return(t) ==
    /\ tasks[t].kind = "phase2"
    /\ tasks[t].pc = "return"
    /\ SetTask(t, IF DirOf(t).exists
                  THEN [Ended(tasks[t]) EXCEPT !.state = "SUCCESS",
                                               !.result = "completed"]
                  ELSE Crash(tasks[t]))
    /\ UNCHANGED disk
    /\ WorkerFrame

----------------------------------------------------------------------------
(* The API handlers of src/api/main.py *)

\* A variant of the COMPLETED / SUCCESS branch that takes every finished
\* task for a completed job, whatever its result says.
FinishedAsCompleted(job, t) ==
    [job EXCEPT !.status = "completed", !.progress = 100, !.clips = t.clips]

\* update_job_status, the COMPLETED / SUCCESS branch: a result whose status
\* is chapters_ready keeps the job waiting for the selection; any other
\* result completes it, with the clips of the result.  Under the custom
\* state COMPLETED the result is the meta dict, which has no clips.
FinishedJob(job, t) ==
    IF t.state = "SUCCESS" /\ t.result = "chapters_ready"
    THEN [job EXCEPT !.status = "chapters_ready", !.progress = 60,
                     !.chapters = t.chapters]
    ELSE [job EXCEPT !.status = "completed", !.progress = 100,
                     !.clips = IF t.state = "SUCCESS" THEN t.clips ELSE <<>>]

\* update_job_status: the job record after its status is read from the
\* Celery result of job["task_id"].
Refreshed(job) ==
    IF job.task_id = 0 THEN job
    ELSE LET t == tasks[job.task_id] IN
      CASE t.state = "PENDING" ->
             [job EXCEPT !.status = "pending", !.progress = 0]
        [] t.state = "DOWNLOADING" ->
             [job EXCEPT !.status = "downloading", !.progress = t.progress]
        [] t.state = "TRANSCRIBING" ->
             [job EXCEPT !.status = "transcribing", !.progress = t.progress]
        [] t.state = "ANALYZING" ->
             [job EXCEPT !.status = "analyzing", !.progress = t.progress]
        [] t.state = "CHAPTERS_READY" ->
             [job EXCEPT !.status = "chapters_ready", !.progress = 60,
                         !.chapters = t.chapters]
        [] t.state = "PROCESSING" ->
             [job EXCEPT !.status = "processing", !.progress = t.progress]
        [] t.state \in {"COMPLETED", "SUCCESS"} -> FinishedJob(job, t)
        [] t.state = "FAILURE" ->
             [job EXCEPT !.status = "failed", !.error = "error"]

Event(op, j, code) == [op |-> op, job |-> j, code |-> code]

ApiFrame == UNCHANGED <<uiVars, plVars, anVars, rdVars, cpVars>>

\* flow_type of a new job: settings.enable_two_phase_flow and job.auto_detect.
FlowKind(flow) == IF flow = "two_phase" THEN "phase1" ELSE "single"

NewJob(task_id) ==
    [status |-> "pending", progress |-> 0, task_id |-> task_id,
     chapters |-> <<>>, selected_chapters |-> <<>>, clips |-> <<>>,
     error |-> "none"]

Put(db, j, rec) == [k \in DOMAIN db \cup {j} |-> IF k = j THEN rec ELSE db[k]]

\* POST /api/jobs
CreateJob(flow) ==
    /\ nextJob + 1 \in JobIds
    /\ Len(tasks) < MaxTasks
    /\ LET j == nextJob + 1 IN
        /\ tasks' = Append(tasks, NewTask(j, FlowKind(flow), <<>>))
        /\ jobs_db' = Put(jobs_db, j, NewJob(Len(tasks) + 1))
        /\ nextJob' = j
        /\ last' = Event("create_job", j, 200)
    /\ UNCHANGED <<disk, deleted>>
    /\ ApiFrame

\* GET /api/jobs/{job_id}; download_job and get_chapters refresh the status
\* the same way.
GetJob(j) ==
    /\ IF j \in DOMAIN jobs_db
       THEN /\ jobs_db' = [jobs_db EXCEPT ![j] = Refreshed(jobs_db[j])]
            /\ last' = Event("poll", 0, 200)
       ELSE /\ UNCHANGED jobs_db
            /\ last' = Event("poll", 0, 404)
    /\ UNCHANGED <<tasks, disk, nextJob, deleted>>
    /\ ApiFrame

\* GET /api/jobs
ListJobs ==
    /\ jobs_db' = [j \in DOMAIN jobs_db |-> Refreshed(jobs_db[j])]
    /\ last' = Event("poll", 0, 200)
    /\ UNCHANGED <<tasks, disk, nextJob, deleted>>
    /\ ApiFrame

\* A variant of the checks of select_chapters without the empty-list check.
SelectionAcceptedEmptyToo(job, d, ids) ==
    /\ job.status = "chapters_ready"
    /\ d.exists /\ d.chapters \notin {NoFile, Partial}
    /\ Range(ids) \ Range(d.chapters) = {}

\* The checks of select_chapters after the status refresh, in code order.
SelectionAccepted(job, d, ids) ==
    /\ job.status = "chapters_ready"
    /\ d.exists /\ d.chapters \notin {NoFile, Partial}
    /\ Range(ids) \ Range(d.chapters) = {}
    /\ ids # <<>>

\* The response to a request select_chapters does not accept: HTTP 400 from
\* the checks, or 500 when json.load of chapters.json raises.
RejectionCode(job, d) ==
    IF job.status = "chapters_ready" /\ d.exists /\ d.chapters = Partial
    THEN 500 ELSE 400

\* POST /api/jobs/{job_id}/select-chapters
SelectChapters(j, ids) ==
    /\ IF j \notin DOMAIN jobs_db
       THEN /\ last' = Event("select_chapters", j, 404)
            /\ UNCHANGED <<jobs_db, tasks>>
       ELSE LET job == Refreshed(jobs_db[j]) IN
            IF SelectionAccepted(job, disk[j], ids)
            THEN /\ Len(tasks) < MaxTasks
                 /\ tasks' = Append(tasks, NewTask(j, "phase2", ids))
                 /\ jobs_db' = [jobs_db EXCEPT ![j] =
                        [job EXCEPT !.selected_chapters = ids,
                                    !.status = "processing",
                                    !.task_id = Len(tasks) + 1]]
                 /\ last' = Event("select_chapters", j, 200)
            ELSE /\ jobs_db' = [jobs_db EXCEPT ![j] = job]
                 /\ last' = Event("select_chapters", j, RejectionCode(job, disk[j]))
                 /\ UNCHANGED tasks
    /\ UNCHANGED <<disk, nextJob, deleted>>
    /\ ApiFrame

\* DELETE /api/jobs/{job_id}
DeleteJob(j) ==
    /\ IF j \in DOMAIN jobs_db
       THEN /\ disk' = [disk EXCEPT ![j] = NoDir]
            /\ jobs_db' = [k \in DOMAIN jobs_db \ {j} |-> jobs_db[k]]
            /\ deleted' = deleted \cup {j}
            /\ last' = Event("delete_job", j, 200)
       ELSE /\ UNCHANGED <<disk, jobs_db, deleted>>
            /\ last' = Event("delete_job", j, 404)
    /\ UNCHANGED <<tasks, nextJob>>
    /\ ApiFrame

\* load_jobs_from_disk: the record rebuilt for one job directory.
RecoveredJob(d) ==
    LET base == [status |-> "failed", progress |-> 0, task_id |-> 0,
                 chapters |-> <<>>, selected_chapters |-> <<>>, clips |-> <<>>,
                 error |-> "none"]
    IN IF d.clips # NoFile
       THEN [base EXCEPT !.status = "completed", !.progress = 100, !.clips = d.clips]
       ELSE IF d.chapters # NoFile
       THEN [base EXCEPT !.status = "chapters_ready", !.progress = 60,
                         !.chapters = d.chapters]
       ELSE base

\* load_jobs_from_disk: the json.load calls on one job directory succeed
\* (metadata.json if it exists, then clips.json or else chapters.json).
Loadable(d) ==
    /\ d.metadata # "partial"
    /\ IF d.clips # NoFile THEN d.clips # Partial ELSE d.chapters # Partial

\* load_jobs_from_disk over the jobs directory, given the current job map;
\* a directory whose load raises is reported and skipped.
LoadJobsFromDisk(db) ==
    [j \in DOMAIN db \cup { k \in JobIds : disk[k].exists /\ Loadable(disk[k]) } |->
        IF j \in DOMAIN db THEN db[j] ELSE RecoveredJob(disk[j])]

\* The API process restarts: the in-memory job map is lost and startup_event
\* runs load_jobs_from_disk.  Workers and the result backend live on.
Restart ==
    /\ jobs_db' = LoadJobsFromDisk(EmptyDb)
    /\ last' = Event("restart", 0, 0)
    /\ UNCHANGED <<tasks, disk, nextJob, deleted>>
    /\ ApiFrame

----------------------------------------------------------------------------
(* Job and Job.update_status of models/job.py *)

\* A progress value p / q, kept as the pair the code divides.
Frac(p, q) == <<p, q>>

Whole(p) == Frac(p, 1)

\* Job(): the dataclass defaults.
FreshJob ==
    [present |-> TRUE, status |-> "pending", progress |-> Whole(0),
     error |-> "none", url |-> TRUE, video |-> FALSE, transcription |-> FALSE,
     chapters |-> <<>>, clips |-> <<>>]

\* job.update_status(status, progress=p)
UpdateStatus(job, status, p) == [job EXCEPT !.status = status, !.progress = p]

\* str(e) of the exception a processor or a hook raises: a message, or the
\* empty string of an exception raised without arguments.
ExceptionMessages == {"", "stage error"}

\* job.update_status(JobStatus.FAILED, error=str(e)): `if error:` keeps the
\* old job.error when the message is empty.
UpdateFailed(job, msg) ==
    [job EXCEPT !.status = "failed", !.error = IF msg # "" THEN msg ELSE @]

----------------------------------------------------------------------------
(* The clipper_ui backend: _jobs, background tasks, /data/jobs/<id> *)

\* No job: _jobs without the job.
UiNoJob == [FreshJob EXCEPT !.present = FALSE]

UiNoDir == [exists |-> FALSE, chapters |-> FALSE, clipFiles |-> {}]

\* background_tasks.add_task(process_job, job.id)
UiProcessTask == [kind |-> "process", ids |-> <<>>, pc |-> "queued",
                  todo |-> <<>>, idx |-> 0]

\* background_tasks.add_task(render_job, job_id, request.chapter_ids, options)
UiRenderTask(ids) == [kind |-> "render", ids |-> ids, pc |-> "queued",
                      todo |-> <<>>, idx |-> 0]

UiEnded(b) == [b EXCEPT !.pc = "done", !.todo = <<>>, !.idx = 0]

\* process_job and render_job are coroutines that never await: once started
\* a background task runs to its end before the event loop serves anything.
UiLoopFree == \A b \in DOMAIN ui_bg : ui_bg[b].pc \in {"queued", "done"}

UiEvent(op, code, ids) == [op |-> op, code |-> code, ids |-> ids]

UiTaskEvent == UiEvent("task", 0, <<>>)

UiFrame == UNCHANGED <<apiVars, plVars, anVars, rdVars, cpVars>>

UiSetTask(b, rec) == ui_bg' = [ui_bg EXCEPT ![b] = rec]

\* POST /api/jobs
UiCreateJob ==
    /\ UiLoopFree
    /\ ui_bg = <<>>
    /\ ui_job' = FreshJob
    /\ ui_bg' = <<UiProcessTask>>
    /\ ui_last' = UiEvent("create_job", 200, <<>>)
    /\ UNCHANGED ui_dir
    /\ UiFrame

\* GET /api/jobs/{job_id}
UiGetJob ==
    /\ UiLoopFree
    /\ ui_last' = UiEvent("get_job", IF ui_job.present THEN 200 ELSE 404, <<>>)
    /\ UNCHANGED <<ui_job, ui_bg, ui_dir>>
    /\ UiFrame

\* POST /api/jobs/{job_id}/select-chapters
UiSelectChapters(ids) ==
    /\ UiLoopFree
    /\ IF ~ui_job.present
       THEN /\ ui_last' = UiEvent("select_chapters", 404, ids)
            /\ UNCHANGED <<ui_job, ui_bg>>
       ELSE IF ui_job.status # "chapters_ready"
       THEN /\ ui_last' = UiEvent("select_chapters", 400, ids)
            /\ UNCHANGED <<ui_job, ui_bg>>
       ELSE /\ Len(ui_bg) <= MaxRenders
            /\ ui_job' = [ui_job EXCEPT !.clips = <<>>]
            /\ ui_bg' = Append(ui_bg, UiRenderTask(ids))
            /\ ui_last' = UiEvent("select_chapters", 200, ids)
    /\ UNCHANGED ui_dir
    /\ UiFrame

\* DELETE /api/jobs/{job_id}
UiDeleteJob ==
    /\ UiLoopFree
    /\ IF ui_job.present
       THEN /\ ui_dir' = UiNoDir
            /\ ui_job' = UiNoJob
            /\ ui_last' = UiEvent("delete_job", 200, <<>>)
       ELSE /\ UNCHANGED <<ui_dir, ui_job>>
            /\ ui_last' = UiEvent("delete_job", 404, <<>>)
    /\ UNCHANGED ui_bg
    /\ UiFrame

\* process_job up to update_status(DOWNLOADING); a job deleted meanwhile ends
\* the task at once.
UiProcessStart(b) ==
    /\ UiLoopFree
    /\ ui_bg[b].kind = "process" /\ ui_bg[b].pc = "queued"
    /\ IF ui_job.present
       THEN /\ ui_dir' = [ui_dir EXCEPT !.exists = TRUE]
            /\ ui_job' = UpdateStatus(ui_job, "downloading", Whole(10))
            /\ UiSetTask(b, [ui_bg[b] EXCEPT !.pc = "download"])
       ELSE /\ UiSetTask(b, UiEnded(ui_bg[b]))
            /\ UNCHANGED <<ui_dir, ui_job>>
    /\ ui_last' = UiTaskEvent
    /\ UiFrame

\* One step of process_job: the processor call at position pc returns and
\* the next status is set, or it raises and the except block sets FAILED.
UiProcessStep(b, pc, ok, next, job) ==
    /\ ui_bg[b].kind = "process" /\ ui_bg[b].pc = pc
    /\ IF ok
       THEN /\ ui_job' = job
            /\ UiSetTask(b, IF next = "done" THEN UiEnded(ui_bg[b])
                            ELSE [ui_bg[b] EXCEPT !.pc = next])
       ELSE /\ \E msg \in ExceptionMessages : ui_job' = UpdateFailed(ui_job, msg)
            /\ UiSetTask(b, UiEnded(ui_bg[b]))
    /\ ui_last' = UiTaskEvent
    /\ UiFrame

\* downloader.download, then update_status(TRANSCRIBING, progress=30)
UiProcessDownload(b) ==
    /\ \E ok \in BOOLEAN :
        UiProcessStep(b, "download", ok, "transcribe",
            UpdateStatus([ui_job EXCEPT !.video = TRUE], "transcribing", Whole(30)))
    /\ UNCHANGED ui_dir

\* transcriber.transcribe and to_srt, then update_status(ANALYZING, progress=60)
UiProcessTranscribe(b) ==
    /\ \E ok \in BOOLEAN :
        UiProcessStep(b, "transcribe", ok, "analyze",
            UpdateStatus([ui_job EXCEPT !.transcription = TRUE], "analyzing", Whole(60)))
    /\ UNCHANGED ui_dir

\* analyzer.analyze_chapters, chapters.json, update_status(CHAPTERS_READY, 100)
UiProcessAnalyze(b) ==
    /\ \E ok \in BOOLEAN, n \in 1..MaxChapters :
        /\ UiProcessStep(b, "analyze", ok, "done",
              UpdateStatus([ui_job EXCEPT !.chapters = ChapterList(n)],
                           "chapters_ready", Whole(100)))
        /\ ui_dir' = IF ok THEN [ui_dir EXCEPT !.chapters = TRUE] ELSE ui_dir

\* render_job up to the clip loop: update_status(PROCESSING, progress=0) and
\* the filter of job.chapters by chapter_ids.
UiRenderStart(b) ==
    /\ UiLoopFree
    /\ ui_bg[b].kind = "render" /\ ui_bg[b].pc = "queued"
    /\ IF ui_job.present
       THEN /\ ui_job' = UpdateStatus(ui_job, "processing", Whole(0))
            /\ UiSetTask(b, [ui_bg[b] EXCEPT
                                !.pc = "render", !.idx = 0,
                                !.todo = SelectSeq2(ui_job.chapters, Range(ui_bg[b].ids))])
       ELSE /\ UiSetTask(b, UiEnded(ui_bg[b]))
            /\ UNCHANGED ui_job
    /\ ui_last' = UiTaskEvent
    /\ UNCHANGED ui_dir
    /\ UiFrame

\* One pass of the clip loop of render_job: the progress update, then
\* render_clip succeeds, reports failure (the clip is left out), or raises.
UiRenderChapter(b) ==
    /\ ui_bg[b].kind = "render" /\ ui_bg[b].pc = "render"
    /\ ui_bg[b].idx < Len(ui_bg[b].todo)
    /\ \E outcome \in {"ok", "no_success", "raise"} :
        LET ch == ui_bg[b].todo[ui_bg[b].idx + 1]
            job == UpdateStatus(ui_job, "processing",
                                Frac(100 * ui_bg[b].idx, Len(ui_bg[b].todo)))
        IN CASE outcome = "ok" ->
                  /\ ui_job' = [job EXCEPT !.clips = Append(@, ch)]
                  /\ ui_dir' = [ui_dir EXCEPT !.clipFiles = @ \cup {ch}]
                  /\ UiSetTask(b, [ui_bg[b] EXCEPT !.idx = @ + 1])
             [] outcome = "no_success" ->
                  /\ ui_job' = job
                  /\ UNCHANGED ui_dir
                  /\ UiSetTask(b, [ui_bg[b] EXCEPT !.idx = @ + 1])
             [] outcome = "raise" ->
                  /\ \E msg \in ExceptionMessages : ui_job' = UpdateFailed(job, msg)
                  /\ UNCHANGED ui_dir
                  /\ UiSetTask(b, UiEnded(ui_bg[b]))
    /\ ui_last' = UiTaskEvent
    /\ UiFrame

\* After the clip loop: update_status(COMPLETED, progress=100)
UiRenderFinish(b) ==
    /\ ui_bg[b].kind = "render" /\ ui_bg[b].pc = "render"
    /\ ui_bg[b].idx = Len(ui_bg[b].todo)
    /\ ui_job' = UpdateStatus(ui_job, "completed", Whole(100))
    /\ UiSetTask(b, UiEnded(ui_bg[b]))
    /\ ui_last' = UiTaskEvent
    /\ UNCHANGED ui_dir
    /\ UiFrame

----------------------------------------------------------------------------
(* Pipeline.execute of pipeline/base.py over the stages of FullPipeline *)

\* FullPipeline.stages, by stage.name.
Stages == <<"download", "transcribe", "analyze", "render">>

StageNames == Range(Stages)

\* The stop_at / skip_to arguments: None, a stage of the list, or a name
\* that is no stage.
StageArgs == StageNames \cup {"none", "no_such_stage"}

\* The chapter_ids keyword argument handed on to RenderStage.execute.
PlChapterIds == { <<>>, <<1>>, <<UnknownChapter>> }

\* The first i with stages[i].name = name, or 0.
IndexOf(name) ==
    IF name \in StageNames THEN CHOOSE i \in DOMAIN Stages : Stages[i] = name ELSE 0

\* Pipeline.execute without its skip_to search: the loop starts at the
\* first stage.
StartAtFirst(skip_to) == 1

\* start_idx of Pipeline.execute, counted from 1.
StartIdx(skip_to) == IF IndexOf(skip_to) = 0 THEN 1 ELSE IndexOf(skip_to)

\* result.skipped_stages
SkippedStages(skip_to) == SubSeq(Stages, 1, StartIdx(skip_to) - 1)

\* PipelineResult.error = None
NoError == <<"none">>

PlIdle ==
    [pc |-> "no_job", run |-> 0, stop_at |-> "none", skip_to |-> "none",
     ids |-> <<>>, i |-> 0, log |-> <<>>, skipped |-> <<>>,
     success |-> TRUE, error |-> NoError, todo |-> <<>>, idx |-> 0,
     clips |-> <<>>]

Called(hook, name) == <<hook, name>>

PlStage == Stages[pl.i]

PlFrame == UNCHANGED <<apiVars, uiVars, anVars, rdVars, cpVars>>

\* return result: the locals of the call are gone.
PlReturned(p) == [p EXCEPT !.pc = "returned", !.todo = <<>>, !.idx = 0, !.clips = <<>>]

\* result.error of a stage that raised: "Stage '<name>' failed: <str(e)>"
StageFailed(name, msg) == <<"failed", name, msg>>

\* except Exception as e: success False, the error names the stage and the
\* message, the job is set to FAILED, return result.
PlRaise(p, job) ==
    \E msg \in ExceptionMessages :
        /\ pl' = [PlReturned(p) EXCEPT !.success = FALSE,
                                       !.error = StageFailed(PlStage, msg)]
        /\ pl_job' = UpdateFailed(job, msg)

\* Job(url=...): the caller builds the job, with or without a URL.
PlCreateJob(url) ==
    /\ pl.pc = "no_job"
    /\ pl_job' = [FreshJob EXCEPT !.url = url]
    /\ pl' = [pl EXCEPT !.pc = "idle"]
    /\ PlFrame

\* pipeline.execute(job, stop_at=..., skip_to=..., chapter_ids=...)
PlExecuteCall(stop_at, skip_to, ids) ==
    /\ pl.pc \in {"idle", "returned"}
    /\ pl.run < MaxRuns
    /\ pl' = [PlIdle EXCEPT !.pc = "head", !.run = pl.run + 1,
                            !.stop_at = stop_at, !.skip_to = skip_to, !.ids = ids,
                            !.i = StartIdx(skip_to),
                            !.skipped = SkippedStages(skip_to)]
    /\ UNCHANGED pl_job
    /\ PlFrame

\* Head of the stage loop: the end of the list, or the stop_at check.
PlLoopHead ==
    /\ pl.pc = "head"
    /\ pl' = IF pl.i > Len(Stages) THEN PlReturned(pl)
             ELSE IF pl.stop_at # "none" /\ PlStage = pl.stop_at THEN PlReturned(pl)
             ELSE [pl EXCEPT !.pc = "validate"]
    /\ UNCHANGED pl_job
    /\ PlFrame

\* stage.validate(job) of each stage.
StageValid(name, job) ==
    CASE name = "download" -> job.url
      [] name = "transcribe" -> job.video
      [] name = "analyze" -> job.transcription
      [] name = "render" -> job.video

\* The error message stage.validate returns with False.
ValidateReason(name) ==
    CASE name = "download" -> "Job must have a URL"
      [] name = "transcribe" -> "Job must have a valid video_path"
      [] name = "analyze" -> "Job must have transcription data"
      [] name = "render" -> "Job must have a valid video_path"

\* A stage the job is valid for goes on to its pre_execute.
ValidationPassed(p) == [p EXCEPT !.pc = "pre_execute"]

\* Pipeline.execute without the return on a failed validation.
ValidationIgnored(p) == ValidationPassed(p)

\* if not valid: success False, the error names the stage and the reason,
\* return result.
ValidationFailed(p) ==
    [PlReturned(p) EXCEPT !.success = FALSE,
                          !.error = <<"validation failed", PlStage, ValidateReason(PlStage)>>]

\* valid, error = stage.validate(job); a failed validation returns.
PlValidate ==
    /\ pl.pc = "validate"
    /\ LET p == [pl EXCEPT !.log = Append(@, Called("validate", PlStage))]
       IN pl' = IF StageValid(PlStage, pl_job) THEN ValidationPassed(p)
                ELSE ValidationFailed(p)
    /\ UNCHANGED pl_job
    /\ PlFrame

\* The status a stage's pre_execute sets, with progress 0.
PreStatus(name) ==
    CASE name = "download" -> "downloading"
      [] name = "transcribe" -> "transcribing"
      [] name = "analyze" -> "analyzing"
      [] name = "render" -> "processing"

\* stage.pre_execute(job)
PlPreExecute ==
    /\ pl.pc = "pre_execute"
    /\ pl_job' = UpdateStatus(pl_job, PreStatus(PlStage), Whole(0))
    /\ pl' = [pl EXCEPT !.pc = "execute", !.log = Append(@, Called("pre_execute", PlStage))]
    /\ PlFrame

\* DownloadStage.execute
DownloadExecute(job) ==
    UpdateStatus([job EXCEPT !.video = TRUE], "downloading", Whole(100))

\* TranscribeStage.execute
TranscribeExecute(job) ==
    UpdateStatus([job EXCEPT !.transcription = TRUE], "transcribing", Whole(100))

\* AnalyzeStage.execute, for an analysis that found n chapters.
AnalyzeExecute(job, n) ==
    UpdateStatus([job EXCEPT !.chapters = ChapterList(n)], "chapters_ready", Whole(100))

\* stage.execute(job, **kwargs) of the download, transcribe and analyze
\* stages: the processor returns, or it raises.
PlExecute ==
    /\ pl.pc = "execute"
    /\ PlStage # "render"
    /\ \E ok \in BOOLEAN, n \in 1..MaxChapters :
        IF ok
        THEN /\ pl_job' = CASE PlStage = "download" -> DownloadExecute(pl_job)
                            [] PlStage = "transcribe" -> TranscribeExecute(pl_job)
                            [] PlStage = "analyze" -> AnalyzeExecute(pl_job, n)
             /\ pl' = [pl EXCEPT !.pc = "post_execute",
                                 !.log = Append(@, Called("execute", PlStage))]
        ELSE PlRaise(pl, pl_job)
    /\ PlFrame

\* RenderStage.execute: chapters_to_render
ChaptersToRender(job, ids) ==
    IF ids # <<>> THEN SelectSeq2(job.chapters, Range(ids)) ELSE job.chapters

\* RenderStage.execute up to the clip loop; nothing to render returns [].
PlRenderBegin ==
    /\ pl.pc = "execute"
    /\ PlStage = "render"
    /\ LET todo == ChaptersToRender(pl_job, pl.ids)
           p == [pl EXCEPT !.log = Append(@, Called("execute", PlStage)), !.clips = <<>>]
       IN pl' = IF todo = <<>> THEN [p EXCEPT !.pc = "post_execute"]
                ELSE [p EXCEPT !.pc = "render_loop", !.todo = todo, !.idx = 0]
    /\ UNCHANGED pl_job
    /\ PlFrame

\* The clip loop counting the chapter in hand as done: (i + 1) / n * 100.
RenderProgressAfter(i, n) == Frac(100 * (i + 1), n)

\* progress = (i / len(chapters_to_render)) * 100, with i counted from 0.
RenderProgress(i, n) == Frac(100 * i, n)

\* One pass of the clip loop of RenderStage.execute.
PlRenderChapter ==
    /\ pl.pc = "render_loop"
    /\ pl.idx < Len(pl.todo)
    /\ \E outcome \in {"ok", "no_success", "raise"} :
        LET ch == pl.todo[pl.idx + 1]
            job == UpdateStatus(pl_job, "processing", RenderProgress(pl.idx, Len(pl.todo)))
        IN CASE outcome = "ok" ->
                  /\ pl_job' = [job EXCEPT !.clips = Append(@, ch)]
                  /\ pl' = [pl EXCEPT !.idx = @ + 1, !.clips = Append(@, ch)]
             [] outcome = "no_success" ->
                  /\ pl_job' = job
                  /\ pl' = [pl EXCEPT !.idx = @ + 1]
             [] outcome = "raise" -> PlRaise(pl, job)
    /\ PlFrame

\* After the clip loop: update_status(COMPLETED, progress=100), return clips.
PlRenderEnd ==
    /\ pl.pc = "render_loop"
    /\ pl.idx = Len(pl.todo)
    /\ pl_job' = UpdateStatus(pl_job, "completed", Whole(100))
    /\ pl' = [pl EXCEPT !.pc = "post_execute"]
    /\ PlFrame

\* stage.post_execute(job, stage_result); RenderStage stores the clips.
\* DownloadStage.post_execute reads result.stat() after result.exists(),
\* which raises when the file is gone in between.
PlPostExecute ==
    /\ pl.pc = "post_execute"
    /\ LET p == [pl EXCEPT !.log = Append(@, Called("post_execute", PlStage))]
       IN \E ok \in BOOLEAN :
           IF ok \/ PlStage # "download"
           THEN /\ pl_job' = IF PlStage = "render"
                              THEN [pl_job EXCEPT !.clips = pl.clips] ELSE pl_job
                /\ pl' = [p EXCEPT !.pc = "head", !.i = @ + 1, !.todo = <<>>,
                                   !.idx = 0, !.clips = <<>>]
           ELSE PlRaise(p, pl_job)
    /\ PlFrame

----------------------------------------------------------------------------
(* Chapter and clip detection of src/api/tasks.py: the AI strategy, the
   rule-based fallback, and the hybrid functions that choose between them.
   Times are whole seconds. *)

Min(a, b) == IF a <= b THEN a ELSE b

Max(a, b) == IF a >= b THEN a ELSE b

\* The sequences over S of length at most n.
SeqsUpTo(S, n) == UNION { [1..k -> S] : k \in 0..n }

\* settings.ai_provider and the providers whose API key is set.
AiProviders == {"groq", "gemini", "openai"}

AiSettings == [provider : AiProviders, keys : SUBSET AiProviders]

\* get_ai_client(): the selected provider when its key is set, else "none".
GetAiClient(cfg) == IF cfg.provider \in cfg.keys THEN cfg.provider ELSE "none"

\* ai_available of smart_chapter_detection and smart_detect_clips:
\* bool(settings.gemini_api_key or settings.openai_api_key)
AiAvailable(cfg) == "gemini" \in cfg.keys \/ "openai" \in cfg.keys

\* `keyword in text`: the items of the keyword, next to each other.  The
\* texts of tasks.py are sequences of characters, those of the analyzer
\* sequences of words.
Contains(text, keyword) ==
    \E i \in 1..(Len(text) - Len(keyword) + 1) :
        SubSeq(text, i, i + Len(keyword) - 1) = keyword

\* A Whisper segment: its start and its text, character by character.
Segment(start, text) == [start |-> start, text |-> text]

\* Segment texts: "ok ok", "ok!", "Apa", "tips", "Kapan?", "a b c!",
\* "luar biasa".
TextOkOk == <<"o", "k", " ", "o", "k">>
TextOk == <<"o", "k", "!">>
TextApa == <<"A", "p", "a">>
TextTips == <<"t", "i", "p", "s">>
TextKapan == <<"K", "a", "p", "a", "n", "?">>
TextAbc == <<"a", " ", "b", " ", "c", "!">>
TextLuarBiasa == <<"l", "u", "a", "r", " ", "b", "i", "a", "s", "a">>

SegmentInputs ==
    { <<>>,
      <<Segment(0, TextOk)>>,
      <<Segment(0, TextOkOk), Segment(200, TextTips)>>,
      <<Segment(40, TextApa), Segment(50, TextApa), Segment(200, TextOkOk)>> }

\* str.lower() of a text
LowerCase(text) ==
    [i \in DOMAIN text |->
        CASE text[i] = "A" -> "a" [] text[i] = "K" -> "k" [] OTHER -> text[i]]

\* len(text.split())
WordCount(text) ==
    Cardinality({ i \in DOMAIN text :
                    text[i] # " " /\ (i = 1 \/ text[i - 1] = " ") })

\* Entries of the viral_keywords dictionary of analyze_transcript_for_clips.
Keyword(keyword, weight) == [keyword |-> keyword, weight |-> weight]

viral_keyword_weights ==
    << Keyword(<<"a", "p", "a">>, 2),
       Keyword(<<"k", "a", "p", "a", "n">>, 2),
       Keyword(<<"l", "u", "a", "r", " ", "b", "i", "a", "s", "a">>, 3),
       Keyword(<<"t", "i", "p", "s">>, 3),
       Keyword(<<"r", "a", "h", "a", "s", "i", "a">>, 4) >>

\* for keyword, weight in viral_keywords.items(): if keyword in text
RECURSIVE KeywordPoints(_, _)
KeywordPoints(text, n) ==
    IF n = 0 THEN 0
    ELSE KeywordPoints(text, n - 1)
         + (IF Contains(text, viral_keyword_weights[n].keyword)
            THEN viral_keyword_weights[n].weight ELSE 0)

\* The score of a segment text before the intro bonus.
TextPoints(text) ==
    KeywordPoints(LowerCase(text), Len(viral_keyword_weights))
    + (IF \E i \in DOMAIN text : text[i] = "?" THEN 2 ELSE 0)
    + (IF \E i \in DOMAIN text : text[i] = "!" THEN 1 ELSE 0)
    + (IF 3 <= WordCount(LowerCase(text)) /\ WordCount(LowerCase(text)) <= 10
       THEN 1 ELSE 0)

VideoDurations == {100, 400}

TargetDurations == {30}

\* A timestamp field of an AI response entry: "MM:SS" (or "HH:MM:SS") for
\* secs seconds, a key that is missing, a text without colon, two parts
\* that are no digits, or a JSON number instead of a string.
Stamp(secs) == [kind |-> "mmss", secs |-> secs]

StampForm(kind) == [kind |-> kind, secs |-> 0]

\* The entries of the JSON array of a chapter response.
ChapterItem(st, en) == [kind |-> "object", start_time |-> st, end_time |-> en]

NotAnObject == [kind |-> "other", start_time |-> StampForm("absent"),
                end_time |-> StampForm("absent")]

ChapterItems ==
    { ChapterItem(Stamp(0), Stamp(60)),
      ChapterItem(Stamp(0), Stamp(200)),
      ChapterItem(Stamp(200), Stamp(220)),
      ChapterItem(Stamp(600), Stamp(800)),
      ChapterItem(StampForm("absent"), StampForm("plain")),
      ChapterItem(Stamp(0), StampForm("words")),
      NotAnObject }

\* The text a provider returns: no [...] in it, a [...] that is not JSON,
\* or a JSON array.
Response(kind, items) == [kind |-> kind, items |-> items]

ChapterResponses ==
    {Response("no_array", <<>>), Response("bad_json", <<>>)}
        \cup { Response("array", items) : items \in SeqsUpTo(ChapterItems, MaxItems) }

\* What the call of a provider does: it raises, or it returns a text.
ProviderOutcome(kind, response) == [kind |-> kind, response |-> response]

ChapterOutcomes ==
    { ProviderOutcome(k, Response("no_array", <<>>)) : k \in {"raise", "provider_raise"} }
        \cup { ProviderOutcome("response", r) : r \in ChapterResponses }

\* A chapter dictionary of tasks.py; title is the index of the segment the
\* fallback takes the title from, 0 for "Part i" and for AI titles.
ChapterDict(i, start, end, confidence, title) ==
    [id |-> i, start |-> start, end |-> end, duration |-> end - start,
     confidence |-> confidence, title |-> title]

\* int(parts[0]) * 60 + int(parts[1]) and its else branches
StartSecs(st) == IF st.kind = "mmss" THEN st.secs ELSE 0

EndSecs(en, start_secs) ==
    CASE en.kind = "mmss" -> en.secs
      [] en.kind = "plain" -> start_secs + 180
      [] OTHER -> 0

\* The entry makes parse_chapter_response raise: item.get on a non-object,
\* .split on a number, int() on a part that is no number.
StampRaises(st) == st.kind \in {"words", "number"}

ItemRaises(item) ==
    item.kind # "object" \/ StampRaises(item.start_time) \/ StampRaises(item.end_time)

RECURSIVE ParseChapterItems(_, _, _)
\* The loop of parse_chapter_response from entry i on, none of them raising.
ParseChapterItems(items, i, video_duration) ==
    IF i > Len(items) THEN <<>>
    ELSE LET start_secs == StartSecs(items[i].start_time)
             end_secs == EndSecs(items[i].end_time, start_secs)
         IN (IF end_secs - start_secs < 30 THEN <<>>
             ELSE <<ChapterDict(i, start_secs, Min(end_secs, video_duration), 85, 0)>>)
            \o ParseChapterItems(items, i + 1, video_duration)

\* parse_chapter_response(response_text, video_duration): any exception
\* returns [].
ParseChapterResponse(resp, video_duration) ==
    IF resp.kind # "array" THEN <<>>
    ELSE IF \E i \in DOMAIN resp.items : ItemRaises(resp.items[i]) THEN <<>>
    ELSE ParseChapterItems(resp.items, 1, video_duration)

\* What a strategy gives its caller: a list, or an exception.
Returned(value) == [raised |-> FALSE, value |-> value]

Raised == [raised |-> TRUE, value |-> <<>>]

\* analyze_chapters_with_ai(segments, video_duration)
AnalyzeChaptersWithAi(segments, video_duration, cfg, outcome) ==
    IF segments = <<>> THEN Returned(<<>>)
    ELSE IF outcome.kind = "raise" THEN Raised
    ELSE IF GetAiClient(cfg) = "none" \/ outcome.kind = "provider_raise" THEN Returned(<<>>)
    ELSE Returned(ParseChapterResponse(outcome.response, video_duration))

\* chapter_segments[0] of generate_fallback_chapters, as an index, or 0.
FirstSegmentIn(segments, start, end) ==
    LET inside == { k \in DOMAIN segments :
                      segments[k].start >= start /\ segments[k].start < end }
    IN IF inside = {} THEN 0 ELSE CHOOSE k \in inside : \A m \in inside : k <= m

\* generate_fallback_chapters(segments, video_duration)
GenerateFallbackChapters(segments, video_duration) ==
    LET num_chapters == Max(1, video_duration \div chapter_duration)
    IN [i \in 1..num_chapters |->
          LET start == (i - 1) * chapter_duration
              end == Min(i * chapter_duration, video_duration)
          IN ChapterDict(i, start, end, 50, FirstSegmentIn(segments, start, end))]

\* A clip candidate of tasks.py.
ClipDict(start, duration, score) == [start |-> start, duration |-> duration, score |-> score]

\* The score without the bonus for the beginning of the video.
SegmentScoreNoIntro(segments, k) == TextPoints(segments[k].text)

\* score of segment k in analyze_transcript_for_clips: the text's points,
\* plus one for the first five segments (i < 5, with i counted from 0).
SegmentScore(segments, k) ==
    TextPoints(segments[k].text) + (IF k - 1 < 5 THEN 1 ELSE 0)

\* Segment k put into a list of segment indices ordered by score, highest
\* first: behind the entries of equal score when stable, before them
\* otherwise.
RECURSIVE InsertByScore(_, _, _, _)
InsertByScore(order, k, segments, stable) ==
    IF order = <<>> THEN <<k>>
    ELSE IF \/ SegmentScore(segments, Head(order)) > SegmentScore(segments, k)
            \/ /\ stable
               /\ SegmentScore(segments, Head(order)) = SegmentScore(segments, k)
    THEN <<Head(order)>> \o InsertByScore(Tail(order), k, segments, stable)
    ELSE <<k>> \o order

\* The first n segments in the order of their score.
RECURSIVE SortedByScore(_, _, _)
SortedByScore(segments, n, stable) ==
    IF n = 0 THEN <<>>
    ELSE InsertByScore(SortedByScore(segments, n - 1, stable), n, segments, stable)

\* A sort that orders equal scores by what earlier calls left behind.
ScoreOrderByCalls(segments) ==
    SortedByScore(segments, Len(segments), Len(dt) % 2 = 0)

\* scored_segments.sort(key=score, reverse=True), as segment indices: the
\* sort is stable.
ScoreOrder(segments) == SortedByScore(segments, Len(segments), TRUE)

\* The selection loop without the limit of 9 clips.
RECURSIVE PickClipsUncapped(_, _, _, _, _)
PickClipsUncapped(order, segments, target_duration, used_times, count) ==
    IF order = <<>> THEN <<>>
    ELSE LET k == Head(order)
             start_time == IF segments[k].start - 2 >= 0 THEN segments[k].start - 2 ELSE 0
             time_key == start_time \div 30
         IN IF time_key \in used_times
            THEN PickClipsUncapped(Tail(order), segments, target_duration, used_times, count)
            ELSE <<[start |-> start_time, duration |-> target_duration,
                    score |-> SegmentScore(segments, k)]>>
                 \o PickClipsUncapped(Tail(order), segments, target_duration,
                                      used_times \cup {time_key}, count + 1)

RECURSIVE PickClips(_, _, _, _, _)
\* The selection loop of analyze_transcript_for_clips over the sorted
\* segments: at most 9 clips, one per 30-second window.
PickClips(order, segments, target_duration, used_times, count) ==
    IF order = <<>> \/ count >= 9 THEN <<>>
    ELSE LET k == Head(order)
             start_time == Max(0, segments[k].start - 2)
             time_key == start_time \div 30
         IN IF time_key \in used_times
            THEN PickClips(Tail(order), segments, target_duration, used_times, count)
            ELSE <<ClipDict(start_time, target_duration, SegmentScore(segments, k))>>
                 \o PickClips(Tail(order), segments, target_duration,
                              used_times \cup {time_key}, count + 1)

\* analyze_transcript_for_clips(segments, target_duration)
AnalyzeTranscriptForClips(segments, target_duration) ==
    IF segments = <<>> THEN <<>>
    ELSE PickClips(ScoreOrder(segments), segments, target_duration, {}, 0)

\* The entries of the JSON array of a clip response: a timestamp and a score.
ClipItem(ts, score) == [kind |-> "object", timestamp |-> ts, score |-> score]

NotAClipObject == [kind |-> "other", timestamp |-> StampForm("absent"), score |-> 5]

ClipItems ==
    { ClipItem(Stamp(0), 8),
      ClipItem(Stamp(40), 8),
      ClipItem(Stamp(50), 5),
      ClipItem(StampForm("words"), 5),
      NotAClipObject }

ClipResponses ==
    {Response("no_array", <<>>), Response("bad_json", <<>>)}
        \cup { Response("array", items) : items \in SeqsUpTo(ClipItems, MaxItems) }

ClipOutcomes ==
    { ProviderOutcome(k, Response("no_array", <<>>)) : k \in {"raise", "provider_raise"} }
        \cup { ProviderOutcome("response", r) : r \in ClipResponses }

\* parse_ai_response(response_text, segments, target_duration): the first
\* five entries; any exception returns [].
ParseAiResponse(resp, target_duration) ==
    LET items == SubSeq(resp.items, 1, Min(5, Len(resp.items)))
    IN IF resp.kind # "array" THEN <<>>
       ELSE IF \E i \in DOMAIN items :
                  items[i].kind # "object" \/ StampRaises(items[i].timestamp)
            THEN <<>>
       ELSE [i \in DOMAIN items |->
               ClipDict(Max(0, StartSecs(items[i].timestamp) - 2), target_duration,
                        items[i].score)]

\* One provider block of analyze_transcript_with_ai: an exception of the
\* call is caught and leaves clips as it was.
ProviderClips(clips, outcome, target_duration) ==
    IF outcome.kind = "response" THEN ParseAiResponse(outcome.response, target_duration)
    ELSE clips

\* No call of a hybrid function yet.
AnIdle ==
    [fn |-> "none", pc |-> "idle", cfg |-> [provider |-> "gemini", keys |-> {}],
     use_ai |-> FALSE, segments |-> <<>>, duration |-> 0, calls |-> <<>>,
     outcomes |-> <<>>, clips |-> <<>>, ai |-> Returned(<<>>), result |-> <<>>,
     method |-> "none"]

AnFrame == UNCHANGED <<apiVars, uiVars, plVars, ca, rdVars, cpVars>>

\* AI results the hybrid functions accept whatever they hold.
AiAlwaysUsable(res) == ~res.raised

\* `if chapters and len(chapters) >= 1` / `if clips`: the AI result is used.
AiUsable(res) == ~res.raised /\ res.value # <<>>

\* smart_chapter_detection(segments, video_duration, use_ai) and
\* smart_detect_clips(segments, target_duration, use_ai) are entered; duration
\* is the video duration or the target duration.
SmartCall(fn, cfg, use_ai, segments, duration) ==
    /\ an.pc = "idle"
    /\ an' = [AnIdle EXCEPT !.fn = fn, !.cfg = cfg, !.use_ai = use_ai,
                            !.segments = segments, !.duration = duration,
                            !.pc = IF use_ai /\ AiAvailable(cfg) THEN "ai"
                                   ELSE "fallback"]
    /\ AnFrame

\* The AI strategy has ended with res: return it with method "ai", or go on
\* to the fallback.
AfterAi(a, res) ==
    IF AiUsable(res)
    THEN [a EXCEPT !.pc = "returned", !.ai = res, !.result = res.value,
                   !.method = "ai", !.clips = <<>>]
    ELSE [a EXCEPT !.pc = "fallback", !.ai = res, !.clips = <<>>]

\* smart_chapter_detection: chapters = analyze_chapters_with_ai(...)
ChaptersAi(outcome) ==
    /\ an.fn = "chapters" /\ an.pc = "ai"
    /\ an' = AfterAi([an EXCEPT !.calls = Append(@, "ai"),
                                !.outcomes = Append(@, outcome)],
                     AnalyzeChaptersWithAi(an.segments, an.duration, an.cfg, outcome))
    /\ AnFrame

\* smart_detect_clips: analyze_transcript_with_ai up to the end of its
\* Gemini block.
ClipsGemini(outcome) ==
    /\ an.fn = "clips" /\ an.pc = "ai"
    /\ LET a == [an EXCEPT !.calls = Append(@, "ai")]
           clips == ProviderClips(<<>>, outcome, an.duration)
       IN an' = IF an.segments = <<>> THEN AfterAi(a, Returned(<<>>))
                ELSE IF outcome.kind = "raise" THEN AfterAi(a, Raised)
                ELSE IF "gemini" \notin an.cfg.keys THEN [a EXCEPT !.pc = "ai_openai"]
                ELSE IF clips # <<>> THEN AfterAi(a, Returned(clips))
                ELSE [a EXCEPT !.pc = "ai_openai", !.clips = clips]
    /\ AnFrame

\* analyze_transcript_with_ai: its OpenAI block and `return clips`.
ClipsOpenai(outcome) ==
    /\ an.fn = "clips" /\ an.pc = "ai_openai"
    /\ an' = IF "openai" \notin an.cfg.keys THEN AfterAi(an, Returned(an.clips))
             ELSE AfterAi(an, Returned(ProviderClips(an.clips, outcome, an.duration)))
    /\ AnFrame

\* The fallback of both hybrid functions, returned with "rule-based".
SmartFallback ==
    /\ an.pc = "fallback"
    /\ an' = [an EXCEPT
                !.pc = "returned",
                !.calls = Append(@, "fallback"),
                !.result = IF an.fn = "chapters"
                           THEN GenerateFallbackChapters(an.segments, an.duration)
                           ELSE AnalyzeTranscriptForClips(an.segments, an.duration),
                !.method = "rule-based"]
    /\ AnFrame

----------------------------------------------------------------------------
(* ContentAnalyzer.analyze_chapters of processors/analyzer.py *)

\* A numeric field of an entry: a number (or a numeric string), a missing
\* key, null, or a text float() rejects.
Num(v) == [kind |-> "num", v |-> v]

NumForm(kind) == [kind |-> kind, v |-> 0]

AnalyzerItem(start, end, confidence) ==
    [kind |-> "object", start |-> start, end |-> end, confidence |-> confidence]

NotAnEntry ==
    [kind |-> "other", start |-> NumForm("absent"), end |-> NumForm("absent"),
     confidence |-> NumForm("absent")]

AnalyzerItems ==
    { AnalyzerItem(Num(0), Num(45), NumForm("absent")),
      AnalyzerItem(NumForm("text"), Num(45), Num(90)),
      AnalyzerItem(Num(0), NumForm("null"), Num(90)),
      AnalyzerItem(Num(50), Num(95), NumForm("text")),
      NotAnEntry }

\* response.content: empty (also what generate returns when the provider
\* raised), a text parse_json_response finds no JSON in, JSON that is falsy
\* (null, [], {}), a non-empty object, a number, or a non-empty array.
Content(kind, items) == [kind |-> kind, items |-> items]

AnalyzerContents ==
    { Content(k, <<>>) : k \in {"empty", "unparseable", "falsy", "object", "scalar"} }
        \cup { Content("array", items) : items \in SeqsUpTo(AnalyzerItems, MaxItems) \ {<<>>} }

\* self.ai_client: None, a client that is not configured, a configured one.
AnalyzerClients == {"none", "unconfigured", "configured"}

Transcriptions == {"", "some text. more text."}

\* _rule_based_analyze(transcription, duration), kept as the call it is.
RuleBasedAnalyze(transcription, duration) ==
    [by |-> "rule_based", raised |-> FALSE, chapters |-> <<>>,
     transcription |-> transcription, duration |-> duration]

AiChapters(chapters, transcription, duration) ==
    [by |-> "ai", raised |-> FALSE, chapters |-> chapters,
     transcription |-> transcription, duration |-> duration]

\* An exception that leaves analyze_chapters.
AnalyzerRaised(transcription, duration) ==
    [by |-> "ai", raised |-> TRUE, chapters |-> <<>>,
     transcription |-> transcription, duration |-> duration]

\* The first field of an entry, in evaluation order, that float() does not
\* take: "text" raises ValueError, "null" raises TypeError.
FirstBadField(item) ==
    LET fields == <<item.start, item.end, item.confidence>>
        bad == { k \in 1..3 : fields[k].kind \in {"text", "null"} }
    IN IF bad = {} THEN "none"
       ELSE fields[CHOOSE k \in bad : \A m \in bad : k <= m].kind

\* Chapter(...) of an entry: AttributeError for a non-object and TypeError
\* for a null leave the loop; ValueError is caught and the entry skipped.
EntryRaises(item) == item.kind # "object" \/ FirstBadField(item) = "null"

EntrySkipped(item) == item.kind = "object" /\ FirstBadField(item) = "text"

NumValue(n, default) == IF n.kind = "num" THEN n.v ELSE default

RECURSIVE BuildChapters(_)
\* The loop of _ai_analyze over entries none of which raises.
BuildChapters(items) ==
    IF items = <<>> THEN <<>>
    ELSE (IF EntrySkipped(Head(items)) THEN <<>>
          ELSE <<[start |-> NumValue(Head(items).start, 0),
                  end |-> NumValue(Head(items).end, 0),
                  duration |-> NumValue(Head(items).end, 0) - NumValue(Head(items).start, 0),
                  confidence |-> NumValue(Head(items).confidence, 80)]>>)
         \o BuildChapters(Tail(items))

\* _ai_analyze(transcription, duration) for the content the provider gave.
AiAnalyze(content, transcription, duration) ==
    CASE content.kind \in {"empty", "unparseable", "falsy"} ->
             RuleBasedAnalyze(transcription, duration)
      [] content.kind \in {"object", "scalar"} ->
             AnalyzerRaised(transcription, duration)
      [] content.kind = "array" ->
             IF \E i \in DOMAIN content.items : EntryRaises(content.items[i])
             THEN AnalyzerRaised(transcription, duration)
             ELSE IF BuildChapters(content.items) # <<>>
                  THEN AiChapters(BuildChapters(content.items), transcription, duration)
                  ELSE RuleBasedAnalyze(transcription, duration)

\* No analyze_chapters call yet.
CaIdle ==
    [pc |-> "idle", use_ai |-> FALSE, client |-> "none",
     content |-> Content("empty", <<>>), result |-> RuleBasedAnalyze("", 0)]

\* analyzer.analyze_chapters(transcription, duration, use_ai)
AnalyzeChapters(transcription, duration, use_ai, client, content) ==
    /\ ca.pc = "idle"
    /\ LET result == IF use_ai /\ client = "configured"
                     THEN AiAnalyze(content, transcription, duration)
                     ELSE RuleBasedAnalyze(transcription, duration)
       IN ca' = [pc |-> IF result.raised THEN "raised" ELSE "returned",
                 use_ai |-> use_ai, client |-> client, content |-> content,
                 result |-> result]
    /\ UNCHANGED <<apiVars, uiVars, plVars, an, rdVars, cpVars>>

----------------------------------------------------------------------------
(* Layout selection of src/api/tasks.py: get_crop_filter,
   generate_clip_with_subtitles and the clip loop of
   process_selected_chapters. *)

\* detect_face_count returns 0, 1, or 2 (2 = 2 or more).
FaceCounts == {0, 1, 2}

\* The counts at 25%, 50% and 75% of the clip.
FaceSamples == [1..3 -> FaceCounts]

\* An options dictionary: whether it holds any key but "last_layout", and
\* the value under "last_layout" ("unset" when the key is absent).
Options(other, last_layout) == [other |-> other, last_layout |-> last_layout]

\* The dictionaries select_chapters hands to the task: the job's options
\* of create_job, or {} for a job load_jobs_from_disk recovered.
TaskOptions == {Options(FALSE, "unset"), Options(TRUE, "unset")}

\* bool(options): a dictionary is true when it is not empty.
Truthy(options) == options.other \/ options.last_layout # "unset"

\* options.get("last_layout", "single")
GetLastLayout(options) ==
    IF options.last_layout = "unset" THEN "single" ELSE options.last_layout

\* The first sample alone decides.
FirstFaceCount(face_counts) == face_counts[1]

\* face_count = max(face_counts)
MaxFaceCount(face_counts) == Max(Max(face_counts[1], face_counts[2]), face_counts[3])

\* get_crop_filter(w, h, face_count, last_layout)[1], the layout used, for
\* a face_count that is not None.
GetCropFilter(face_count, last_layout) ==
    IF face_count >= 2 THEN "split"
    ELSE IF face_count = 1 THEN "single"
    ELSE last_layout

\* generate_clip_with_subtitles(..., options) up to the ffmpeg call: the
\* layout used and the caller's dictionary afterwards. `options or {}` is
\* the caller's dictionary only when that one is not empty; written to a
\* new dictionary, "last_layout" is gone when the function returns.
GenerateClipWithSubtitles(options, face_counts) ==
    LET local == IF Truthy(options) THEN options ELSE Options(FALSE, "unset")
        used_layout == GetCropFilter(MaxFaceCount(face_counts), GetLastLayout(local))
    IN [layout |-> used_layout,
        options |-> IF Truthy(options) THEN [options EXCEPT !.last_layout = used_layout]
                    ELSE options]

\* A clip the loop has rendered: what was sampled and the layout used.
RenderedClip(face_counts, layout) == [face_counts |-> face_counts, layout |-> layout]

\* No process_selected_chapters task yet.
LayIdle ==
    [pc |-> "idle", total |-> 0, options |-> Options(FALSE, "unset"), clips |-> <<>>]

RdFrame == UNCHANGED <<apiVars, uiVars, plVars, anVars, cpVars>>

\* process_selected_chapters(job_id, chapter_ids, options) up to its loop
\* over the total selected chapters; `options = options or {}`.
ProcessSelectedChapters(options, total) ==
    /\ lay.pc = "idle"
    /\ lay' = [LayIdle EXCEPT !.pc = "loop", !.total = total, !.options = options]
    /\ UNCHANGED <<rf, vs, dt>>
    /\ RdFrame

\* One pass of the loop: process_single_chapter(job_dir, chapter, segments,
\* options); the ffmpeg run of the subtitled clip raises when it fails.
ProcessSingleChapter(face_counts, ok) ==
    /\ lay.pc = "loop"
    /\ Len(lay.clips) < lay.total
    /\ LET r == GenerateClipWithSubtitles(lay.options, face_counts)
       IN lay' = IF ok
                 THEN [lay EXCEPT !.options = r.options,
                                  !.clips = Append(@, RenderedClip(face_counts, r.layout))]
                 ELSE [lay EXCEPT !.options = r.options, !.pc = "failed"]
    /\ UNCHANGED <<rf, vs, dt>>
    /\ RdFrame

\* After the loop: clips.json is written, state COMPLETED.
ChaptersProcessed ==
    /\ lay.pc = "loop"
    /\ Len(lay.clips) = lay.total
    /\ lay' = [lay EXCEPT !.pc = "completed"]
    /\ UNCHANGED <<rf, vs, dt>>
    /\ RdFrame

----------------------------------------------------------------------------
(* smart_reframe_video of src/api/tasks.py. Lengths are pixels; smoothing is
   in hundredths, and the blend is computed exactly before int() truncates
   it. *)

\* (orig_w, orig_h) of the capture and (target_w, target_h) of the call.
SourceSizes == {<<40, 20>>, <<20, 40>>}

TargetSizes == {<<9, 16>>, <<16, 9>>}

Smoothings == {15, 50, 85}

\* A face box (x, y, w, h) of detectMultiScale.
Box(x, y, w, h) == [x |-> x, y |-> y, w |-> w, h |-> h]

\* The boxes a frame of the given size may show: a small one in a corner, a
\* large one in the opposite corner, one just off the middle.
SmallBox == Box(0, 0, 4, 4)

LargeBox(orig_w, orig_h) == Box(orig_w - 6, orig_h - 6, 6, 6)

MiddleBox(orig_w, orig_h) == Box(orig_w \div 2, orig_h \div 2, 4, 4)

\* What a frame shows: no face, one of the boxes, or two of them in either
\* order.
Shown == {"none", "small", "large", "middle", "small_large", "large_small"}

\* What detectMultiScale returns for the frame.
Detections(shown, orig_w, orig_h) ==
    CASE shown = "none" -> <<>>
      [] shown = "small" -> <<SmallBox>>
      [] shown = "large" -> <<LargeBox(orig_w, orig_h)>>
      [] shown = "middle" -> <<MiddleBox(orig_w, orig_h)>>
      [] shown = "small_large" -> <<SmallBox, LargeBox(orig_w, orig_h)>>
      [] shown = "large_small" -> <<LargeBox(orig_w, orig_h), SmallBox>>

\* max(faces, key=lambda f: f[2] * f[3]): the first box of the largest area.
LargestFace(faces) ==
    faces[CHOOSE i \in DOMAIN faces :
            /\ \A j \in DOMAIN faces : faces[j].w * faces[j].h <= faces[i].w * faces[i].h
            /\ \A j \in DOMAIN faces :
                  faces[j].w * faces[j].h = faces[i].w * faces[i].h => i <= j]

\* (face_center_x, face_center_y) of a box
FaceCenter(f) == <<f.x + f.w \div 2, f.y + f.h \div 2>>

\* The (last, face_center, smoothing) up to 40 pixels whose blend is a whole
\* number that the double-precision sum falls just short of, as
\* 13 * (1 - 0.15) + 13 * 0.15 = 12.999999999999998.
FloatShort ==
    { <<13, 13, 15>>, <<21, 21, 15>>, <<26, 26, 15>>, <<31, 31, 15>>,
      <<21, 1, 15>>, <<26, 6, 15>>, <<31, 11, 15>>, <<1, 21, 85>>, <<6, 26, 85>> }

\* int(last * (1 - smoothing) + face_center * smoothing)
Blend(last_center, face_center, smoothing) ==
    LET exact == (last_center * (100 - smoothing) + face_center * smoothing) \div 100
    IN IF <<last_center, face_center, smoothing>> \in FloatShort THEN exact - 1 ELSE exact

\* crop_w and crop_h: orig_ar > target_ar crops the width, else the height.
CropSize(orig_w, orig_h, target_w, target_h) ==
    IF orig_w * target_h > target_w * orig_h
    THEN <<(orig_h * target_w) \div target_h, orig_h>>
    ELSE <<orig_w, (orig_w * target_h) \div target_w>>

\* The crop position without the clamp.
UnclampedCropPos(last_center, crop, orig) == last_center - crop \div 2

\* crop_x = last_center_x - crop_w // 2, clamped to [0, orig_w - crop_w]
CropPos(last_center, crop, orig) ==
    Max(0, Min(last_center - crop \div 2, orig - crop))

\* A failed audio merge makes the function fail.
MergeResultStrict(merged) == IF merged THEN "True" ELSE "False"

\* The value returned after the frame loop: True when ffmpeg merged the
\* audio, and True from the except block when it did not.
MergeResult(merged) == "True"

\* What the detection gave on a frame: a face center, NoFace, or NotRun on
\* the frames it is skipped on.
NoFace == <<-1, -1>>

NotRun == <<-2, -2>>

\* No smart_reframe_video call yet. detected holds what the detection gave
\* on the last frame, observed what it gave on the frames it ran on, crops
\* the (crop_x, crop_y) of the frames written.
RfIdle ==
    [pc |-> "idle", opened |-> FALSE,
     orig_w |-> 0, orig_h |-> 0, target_w |-> 0, target_h |-> 0,
     smoothing |-> 0, crop_w |-> 0, crop_h |-> 0,
     last_center_x |-> 0, last_center_y |-> 0, frame_count |-> 0,
     detected |-> NotRun, observed |-> {}, crops |-> {}, result |-> "none"]

\* smart_reframe_video(input_path, output_path, target_w, target_h,
\* smoothing) up to the frame loop; a capture that is not opened returns
\* False.
SmartReframeVideo(opened, source, target, smoothing) ==
    /\ rf.pc = "idle"
    /\ LET crop == CropSize(source[1], source[2], target[1], target[2])
       IN rf' = IF ~opened THEN [RfIdle EXCEPT !.pc = "returned", !.result = "False"]
                ELSE [RfIdle EXCEPT
                        !.pc = "frames", !.opened = TRUE,
                        !.orig_w = source[1], !.orig_h = source[2],
                        !.target_w = target[1], !.target_h = target[2],
                        !.smoothing = smoothing,
                        !.crop_w = crop[1], !.crop_h = crop[2],
                        !.last_center_x = source[1] \div 2,
                        !.last_center_y = source[2] \div 2]
    /\ UNCHANGED <<lay, vs, dt>>
    /\ RdFrame

\* One pass of the frame loop: cap.read() gave a frame.
ReframeFrame(shown) ==
    /\ rf.pc = "frames"
    /\ rf.frame_count < MaxFrames
    /\ LET detect == rf.frame_count % 3 = 0
           faces == Detections(shown, rf.orig_w, rf.orig_h)
           found == detect /\ faces # <<>>
           c == IF found THEN FaceCenter(LargestFace(faces))
                ELSE IF detect THEN NoFace ELSE NotRun
           x == IF found THEN Blend(rf.last_center_x, c[1], rf.smoothing)
                ELSE rf.last_center_x
           y == IF found THEN Blend(rf.last_center_y, c[2], rf.smoothing)
                ELSE rf.last_center_y
       IN rf' = [rf EXCEPT
                   !.last_center_x = x,
                   !.last_center_y = y,
                   !.detected = c,
                   !.observed = IF detect THEN @ \cup {c} ELSE @,
                   !.crops = @ \cup {<<CropPos(x, rf.crop_w, rf.orig_w),
                                       CropPos(y, rf.crop_h, rf.orig_h)>>},
                   !.frame_count = @ + 1]
    /\ UNCHANGED <<lay, vs, dt>>
    /\ RdFrame

\* cap.read() gave no frame: cap.release(), out.release().
ReframeEndOfVideo ==
    /\ rf.pc = "frames"
    /\ rf' = [rf EXCEPT !.pc = "merge"]
    /\ UNCHANGED <<lay, vs, dt>>
    /\ RdFrame

\* The audio merge and the return.
ReframeMerge(merged) ==
    /\ rf.pc = "merge"
    /\ rf' = [rf EXCEPT !.pc = "returned", !.result = MergeResult(merged)]
    /\ UNCHANGED <<lay, vs, dt>>
    /\ RdFrame

----------------------------------------------------------------------------
(* ContentAnalyzer.score_viral_potential of processors/analyzer.py. A text
   is the sequence of its words; confidence is in hundredths. *)

\* str.lower() of a word
Lower(word) == IF word = "Secret" THEN "secret" ELSE word

LowerText(text) == [i \in DOMAIN text |-> Lower(text[i])]

\* `"?" in summary`
HasQuestionMark(text) == \E i \in DOMAIN text : text[i] = "why?"

viral_keywords ==
    << <<"secret">>, <<"hack">>, <<"trick">>, <<"amazing">>, <<"unbelievable">>,
       <<"shocking">>, <<"incredible">>, <<"must", "see">>, <<"you", "won't">>,
       <<"finally">>, <<"discover">>, <<"learn">>, <<"how", "to">> >>

\* chapter.summary: None, or a text.
Summary(none, text) == [none |-> none, text |-> text]

\* The fields of a Chapter the score reads; hooks is len(chapter.hooks).
ScoredChapter(duration, hooks, summary, title, confidence) ==
    [duration |-> duration, hooks |-> hooks, summary |-> summary, title |-> title,
     confidence |-> confidence]

ChapterDurations == {10, 20, 30, 60, 61, 90, 91}

HookCounts == {0, 1, 3, 4}

\* float(item.get("confidence", 0.8)) of _ai_analyze takes what the
\* provider wrote; the rule-based chapters have 0.5 and 0.6.
Confidences == {-3, 0, 50, 60, 100}

Titles ==
    { <<"plain">>, <<"Secret", "hack">>, <<"how", "to", "learn">>,
      <<"one", "two", "three", "four", "five", "must">> }

Summaries ==
    { Summary(TRUE, <<>>), Summary(FALSE, <<>>), Summary(FALSE, <<"see", "why?">>),
      Summary(FALSE, <<"amazing", "trick">>) }

ScoredChapters ==
    { ScoredChapter(d, h, s, t, c) :
        d \in ChapterDurations, h \in HookCounts, s \in Summaries, t \in Titles,
        c \in Confidences }

\* math.floor(n / d)
FloorOf(n, d) == n \div d

\* int(x) for x = n / d: the fraction is cut off, toward zero.
IntOf(n, d) == IF n >= 0 THEN n \div d ELSE -((-n) \div d)

\* text = (chapter.title + " " + (chapter.summary or "")).lower()
ScoredText(chapter) == LowerText(chapter.title \o chapter.summary.text)

\* The keywords of viral_keywords found in a text.
KeywordsIn(text) == { k \in DOMAIN viral_keywords : Contains(text, viral_keywords[k]) }

\* score_viral_potential(chapter, transcription)
ScoreViralPotential(chapter) ==
    LET length == IF 30 <= chapter.duration /\ chapter.duration <= 60 THEN 20
                  ELSE IF 60 < chapter.duration /\ chapter.duration <= 90 THEN 10
                  ELSE IF chapter.duration < 20 THEN -20
                  ELSE 0
        hooks == IF chapter.hooks > 0 THEN Min(chapter.hooks * 5, 15) ELSE 0
        question == IF ~chapter.summary.none /\ HasQuestionMark(chapter.summary.text)
                    THEN 5 ELSE 0
        title == IF Len(chapter.title) <= 5 THEN 5 ELSE 0
        confidence == IntOf(chapter.confidence * 20, 100)
        keywords == 2 * Cardinality(KeywordsIn(ScoredText(chapter)))
    IN Min(Max(50 + length + hooks + question + title + confidence + keywords, 0), 100)

\* No score_viral_potential call yet.
VsIdle ==
    [pc |-> "idle", score |-> 0,
     chapter |-> ScoredChapter(0, 0, Summary(TRUE, <<>>), <<>>, 0)]

\* score = self.analyzer.score_viral_potential(chapter, transcription_text)
ScoreChapter(chapter) ==
    /\ vs.pc = "idle"
    /\ vs' = [pc |-> "returned", score |-> ScoreViralPotential(chapter), chapter |-> chapter]
    /\ UNCHANGED <<lay, rf, dt>>
    /\ RdFrame

----------------------------------------------------------------------------
(* Repeated calls of analyze_transcript_for_clips. *)

ClipTargets == {15, 30, 60}

\* Eleven segments, 30 seconds apart, so that each one starts a 30-second
\* window of its own.
LongTranscript ==
    [k \in 1..11 |->
        Segment(30 * k - 28,
                CASE k = 7 -> TextKapan [] k = 11 -> TextTips [] OTHER -> TextOkOk)]

\* Two segments four seconds apart, on either side of a window boundary.
CloseTranscript == <<Segment(30, TextAbc), Segment(34, TextLuarBiasa)>>

\* Two segments of one 30-second window and of equal score, and a third.
SharedWindowTranscript ==
    <<Segment(40, TextApa), Segment(50, TextApa), Segment(200, TextOkOk)>>

ClipSegmentInputs == {<<>>, SharedWindowTranscript, LongTranscript, CloseTranscript}

\* One call: its arguments and what it returned.
ClipsCall(segments, target_duration, clips) ==
    [segments |-> segments, target_duration |-> target_duration, clips |-> clips]

\* clips = analyze_transcript_for_clips(segments, target_duration)
AnalyzeTranscriptCall(segments, target_duration) ==
    /\ Len(dt) < MaxCalls
    /\ dt' = Append(dt, ClipsCall(segments, target_duration,
                                  AnalyzeTranscriptForClips(segments, target_duration)))
    /\ UNCHANGED <<lay, rf, vs>>
    /\ RdFrame

----------------------------------------------------------------------------
(* CaptionRenderer.word_level_segments of processors/caption.py *)

\* Words of one transcription handed to word_level_segments.
MaxWords == 3

\* word.get("end", ...) of a word without an "end" key.
NoKey == 0 - 1

\* current_start = None
NoStart == 0 - 2

\* The "word" strings: characters, with a leading blank as the recogniser
\* writes them, blank only, or ending in punctuation.
WordTexts == { <<" ">>, <<" ", "a">>, <<"a", "b">>, <<"a", ",">> }

\* How long a word is spoken; NoKey for a word without "end".
WordSpans == {NoKey, 1, 2}

WordShapes == WordTexts \X WordSpans

\* The word dictionaries of a transcription: each word starts where the one
\* before it ended.
RECURSIVE WordsFrom(_, _)
WordsFrom(shapes, at) ==
    IF shapes = <<>> THEN <<>>
    ELSE LET sh == Head(shapes)
             stop == IF sh[2] = NoKey THEN at ELSE at + sh[2]
         IN <<[word |-> sh[1], start |-> at, end |-> IF sh[2] = NoKey THEN NoKey ELSE stop]>>
            \o WordsFrom(Tail(shapes), stop)

WordLists == { WordsFrom(shapes, 0) : shapes \in SeqsUpTo(WordShapes, MaxWords) }

\* max_chars and max_duration of a call; 15 and 3.0 are the defaults.
MaxCharsArgs == {4, 15}
MaxDurationArgs == {3}

\* str.strip() over blanks.
RECURSIVE LStrip(_)
LStrip(t) == IF t # <<>> /\ Head(t) = " " THEN LStrip(Tail(t)) ELSE t

RECURSIVE RStrip(_)
RStrip(t) ==
    IF t # <<>> /\ t[Len(t)] = " " THEN RStrip(SubSeq(t, 1, Len(t) - 1)) ELSE t

Strip(t) == RStrip(LStrip(t))

\* " ".join(texts)
RECURSIVE JoinWords(_)
JoinWords(texts) ==
    IF texts = <<>> THEN <<>>
    ELSE IF Len(texts) = 1 THEN texts[1]
    ELSE texts[1] \o <<" ">> \o JoinWords(Tail(texts))

\* The end of a segment without the punctuation rule.
SegmentEndsOnSizeOnly(text, span, word_text, max_chars, max_duration) ==
    Len(text) >= max_chars \/ span >= max_duration

\* len(current_text) >= max_chars or (current_end - current_start) >=
\* max_duration or word_text.endswith((".", "!", "?", ","))
SegmentEnds(text, span, word_text, max_chars, max_duration) ==
    \/ Len(text) >= max_chars
    \/ span >= max_duration
    \/ word_text[Len(word_text)] \in {".", "!", "?", ","}

\* A subtitle segment; words is history: how many words went into it.
CaptionSegment(start, end, text, words) ==
    [start |-> start, end |-> end, text |-> text, words |-> words]

\* The locals of the loop before the first word.
WlLocals == [segments |-> <<>>, current_segment |-> <<>>, current_start |-> NoStart]

\* One pass of `for word in transcription`.
WlWord(loc, word, max_chars, max_duration) ==
    LET word_text == Strip(word.word)
        current_start == IF loc.current_start = NoStart THEN word.start
                         ELSE loc.current_start
        current_segment == Append(loc.current_segment, word_text)
        current_text == JoinWords(current_segment)
        current_end == IF word.end = NoKey THEN current_start ELSE word.end
    IN IF word_text = <<>> THEN loc
       ELSE IF SegmentEnds(current_text, current_end - current_start, word_text,
                           max_chars, max_duration)
       THEN [segments |-> Append(loc.segments,
                 CaptionSegment(current_start, current_end, current_text,
                                Len(current_segment))),
             current_segment |-> <<>>, current_start |-> NoStart]
       ELSE [loc EXCEPT !.current_segment = current_segment,
                        !.current_start = current_start]

RECURSIVE WlLoop(_, _, _, _)
WlLoop(loc, words, max_chars, max_duration) ==
    IF words = <<>> THEN loc
    ELSE WlLoop(WlWord(loc, Head(words), max_chars, max_duration), Tail(words),
                max_chars, max_duration)

\* word_level_segments(transcription, max_chars, max_duration)
WordLevelSegments(transcription, max_chars, max_duration) ==
    LET loc == WlLoop(WlLocals, transcription, max_chars, max_duration)
        last_word == transcription[Len(transcription)]
    IN IF loc.current_segment # <<>> /\ loc.current_start # NoStart
       THEN Append(loc.segments,
                CaptionSegment(loc.current_start,
                    IF last_word.end = NoKey THEN loc.current_start ELSE last_word.end,
                    JoinWords(loc.current_segment), Len(loc.current_segment)))
       ELSE loc.segments

WlIdle ==
    [pc |-> "idle", transcription |-> <<>>, max_chars |-> 0, max_duration |-> 0,
     segments |-> <<>>]

CpFrame == UNCHANGED <<apiVars, uiVars, plVars, anVars, rdVars>>

\* segments = self.word_level_segments(words, ...)
WordLevelSegmentsCall(transcription, max_chars, max_duration) ==
    /\ wl.pc = "idle"
    /\ wl' = [pc |-> "returned", transcription |-> transcription,
              max_chars |-> max_chars, max_duration |-> max_duration,
              segments |-> WordLevelSegments(transcription, max_chars, max_duration)]
    /\ CpFrame

----------------------------------------------------------------------------
(* Specifications *)

ApiInit ==
    /\ jobs_db = EmptyDb
    /\ tasks = <<>>
    /\ disk = [j \in JobIds |-> NoDir]
    /\ nextJob = 0
    /\ deleted = {}
    /\ last = Event("restart", 0, 0)

UiInit ==
    /\ ui_job = UiNoJob
    /\ ui_bg = <<>>
    /\ ui_dir = UiNoDir
    /\ ui_last = UiEvent("start", 0, <<>>)

PlInit ==
    /\ pl_job = UiNoJob
    /\ pl = PlIdle

AnInit ==
    /\ an = AnIdle
    /\ ca = CaIdle

RdInit ==
    /\ lay = LayIdle
    /\ rf = RfIdle
    /\ vs = VsIdle
    /\ dt = <<>>

CpInit == wl = WlIdle

Init == ApiInit /\ UiInit /\ PlInit /\ AnInit /\ RdInit /\ CpInit

\* Every step of the service and its workers while the API process stays up.
ApiUpNext ==
    \/ \E flow \in {"two_phase", "single_phase"} : CreateJob(flow)
    \/ \E j \in JobIds : GetJob(j)
    \/ ListJobs
    \/ \E j \in JobIds, ids \in SelectionInputs : SelectChapters(j, ids)
    \/ \E j \in JobIds : DeleteJob(j)
    \/ \E t \in TaskIds : WorkerStart(t)
    \/ \E t \in TaskIds : WorkerDownload(t)
    \/ \E t \in TaskIds : WorkerPublishTranscribing(t)
    \/ \E t \in TaskIds : WorkerTranscribed(t)
    \/ \E t \in TaskIds : P1Analyze(t)
    \/ \E t \in TaskIds : P1OpenChapters(t)
    \/ \E t \in TaskIds : P1SaveChapters(t)
    \/ \E t \in TaskIds : P1OpenSegments(t)
    \/ \E t \in TaskIds : P1SaveSegments(t)
    \/ \E t \in TaskIds : P1OpenMetadata(t)
    \/ \E t \in TaskIds : P1SaveMetadata(t)
    \/ \E t \in TaskIds : P1PublishReady(t)
    \/ \E t \in TaskIds : P1Return(t)
    \/ \E t \in TaskIds : SRender(t)
    \/ \E t \in TaskIds : SFinish(t)
    \/ \E t \in TaskIds : SReturn(t)
    \/ \E t \in TaskIds : P2Start(t)
    \/ \E t \in TaskIds : P2Publish(t)
    \/ \E t \in TaskIds : P2Chapter(t)
    \/ \E t \in TaskIds : P2OpenClips(t)
    \/ \E t \in TaskIds : P2SaveClips(t)
    \/ \E t \in TaskIds : P2PublishCompleted(t)
    \/ \E t \in TaskIds : P2Return(t)

ApiNext == ApiUpNext \/ Restart

\* The service with restarts of the API process.
SpecApi == Init /\ [][ApiNext]_vars

\* The service while the API process stays up.
SpecApiUp == Init /\ [][ApiUpNext]_vars

UiNext ==
    \/ UiCreateJob
    \/ UiGetJob
    \/ \E ids \in SelectionInputs : UiSelectChapters(ids)
    \/ UiDeleteJob
    \/ \E b \in DOMAIN ui_bg : UiProcessStart(b)
    \/ \E b \in DOMAIN ui_bg : UiProcessDownload(b)
    \/ \E b \in DOMAIN ui_bg : UiProcessTranscribe(b)
    \/ \E b \in DOMAIN ui_bg : UiProcessAnalyze(b)
    \/ \E b \in DOMAIN ui_bg : UiRenderStart(b)
    \/ \E b \in DOMAIN ui_bg : UiRenderChapter(b)
    \/ \E b \in DOMAIN ui_bg : UiRenderFinish(b)

\* The clipper_ui backend.
SpecUi == Init /\ [][UiNext]_vars

PlNext ==
    \/ \E url \in BOOLEAN : PlCreateJob(url)
    \/ \E stop_at \in StageArgs, skip_to \in StageArgs, ids \in PlChapterIds :
          PlExecuteCall(stop_at, skip_to, ids)
    \/ PlLoopHead
    \/ PlValidate
    \/ PlPreExecute
    \/ PlExecute
    \/ PlRenderBegin
    \/ PlRenderChapter
    \/ PlRenderEnd
    \/ PlPostExecute

\* Pipeline.execute calls on one job.
SpecPl == Init /\ [][PlNext]_vars

AnNext ==
    \/ \E cfg \in AiSettings, use_ai \in BOOLEAN, segments \in SegmentInputs,
          duration \in VideoDurations :
          SmartCall("chapters", cfg, use_ai, segments, duration)
    \/ \E cfg \in AiSettings, use_ai \in BOOLEAN, segments \in SegmentInputs,
          duration \in TargetDurations :
          SmartCall("clips", cfg, use_ai, segments, duration)
    \/ \E outcome \in ChapterOutcomes : ChaptersAi(outcome)
    \/ \E outcome \in ClipOutcomes : ClipsGemini(outcome)
    \/ \E outcome \in ClipOutcomes : ClipsOpenai(outcome)
    \/ SmartFallback

\* Calls of the hybrid chapter and clip detection of tasks.py.
SpecAn == Init /\ [][AnNext]_vars

CaNext ==
    \E transcription \in Transcriptions, duration \in VideoDurations,
       use_ai \in BOOLEAN, client \in AnalyzerClients, content \in AnalyzerContents :
       AnalyzeChapters(transcription, duration, use_ai, client, content)

\* Calls of ContentAnalyzer.analyze_chapters.
SpecCa == Init /\ [][CaNext]_vars

LayNext ==
    \/ \E options \in TaskOptions, total \in 1..MaxChapters :
          ProcessSelectedChapters(options, total)
    \/ \E face_counts \in FaceSamples, ok \in BOOLEAN :
          ProcessSingleChapter(face_counts, ok)
    \/ ChaptersProcessed

\* The clip loop of one process_selected_chapters task.
SpecLay == Init /\ [][LayNext]_vars

RfNext ==
    \/ \E opened \in BOOLEAN, source \in SourceSizes, target \in TargetSizes,
          smoothing \in Smoothings :
          SmartReframeVideo(opened, source, target, smoothing)
    \/ \E shown \in Shown : ReframeFrame(shown)
    \/ ReframeEndOfVideo
    \/ \E merged \in BOOLEAN : ReframeMerge(merged)

\* One smart_reframe_video call.
SpecRf == Init /\ [][RfNext]_vars

VsNext == \E chapter \in ScoredChapters : ScoreChapter(chapter)

\* Calls of ContentAnalyzer.score_viral_potential.
SpecVs == Init /\ [][VsNext]_vars

DtNext ==
    \E segments \in ClipSegmentInputs, target_duration \in ClipTargets :
        AnalyzeTranscriptCall(segments, target_duration)

\* Calls of analyze_transcript_for_clips, one after the other.
SpecDt == Init /\ [][DtNext]_vars

WlNext ==
    \E transcription \in WordLists, max_chars \in MaxCharsArgs,
       max_duration \in MaxDurationArgs :
        WordLevelSegmentsCall(transcription, max_chars, max_duration)

\* Calls of CaptionRenderer.word_level_segments.
SpecWl == Init /\ [][WlNext]_vars

----------------------------------------------------------------------------
(* Claims about the API service, checked under SpecApi *)

\* A status change the transition table allows: forward in the order of
\* JobStatus (skipping is allowed), never out of a terminal status.
Forward(a, b) == a = b \/ (a \notin Terminal /\ Rank(a) < Rank(b))

StatusOf(db, j) == db[j].status

\* C1: across create_job, status polls, select_chapters and worker state
\* updates the status recorded for a job only moves forward along the
\* transition table, or to FAILED from a non-terminal status; it never
\* returns to an earlier status.
C1_StatusOnlyForward ==
    [][\A j \in DOMAIN jobs_db \cap DOMAIN jobs_db' :
          last'.op # "restart" =>
              Forward(StatusOf(jobs_db, j), StatusOf(jobs_db', j))]_vars

\* The Celery states a phase-1 task may move between in one step.
Phase1Steps ==
    { <<"PENDING", "DOWNLOADING">>, <<"DOWNLOADING", "TRANSCRIBING">>,
      <<"TRANSCRIBING", "ANALYZING">>, <<"ANALYZING", "CHAPTERS_READY">>,
      <<"CHAPTERS_READY", "SUCCESS">> }

\* C3: the phase-1 worker publishes DOWNLOADING, TRANSCRIBING, ANALYZING,
\* CHAPTERS_READY in that order and ends without rendering; a job recorded as
\* chapters_ready keeps that status under polls, and leaves it only by an
\* accepted select_chapters call, which moves it to processing.
C3_ChaptersReadyIsStablePause ==
    [][/\ \A t \in DOMAIN tasks :
            tasks[t].kind = "phase1" /\ tasks'[t] # tasks[t] =>
              /\ \/ tasks'[t].state = tasks[t].state
                 \/ <<tasks[t].state, tasks'[t].state>> \in Phase1Steps
                 \/ tasks'[t].state = "FAILURE"
              /\ tasks'[t].clips = <<>>
              /\ disk'[tasks[t].job].clips = disk[tasks[t].job].clips
              /\ disk'[tasks[t].job].clipFiles = disk[tasks[t].job].clipFiles
              /\ tasks'[t].state = "SUCCESS" => tasks'[t].result = "chapters_ready"
       /\ \A j \in DOMAIN jobs_db \cap DOMAIN jobs_db' :
            /\ StatusOf(jobs_db, j) = "chapters_ready"
            /\ StatusOf(jobs_db', j) # "chapters_ready"
            /\ last'.op # "restart"
            => /\ last' = Event("select_chapters", j, 200)
               /\ StatusOf(jobs_db', j) = "processing"
               /\ Len(tasks') = Len(tasks) + 1
               /\ tasks'[Len(tasks')].kind = "phase2"]_vars

\* C3 witness: phase 1 ended in SUCCESS without a clip, and an accepted
\* selection has just moved the job to processing.
C3_Witness ==
    /\ 1 \in DOMAIN jobs_db
    /\ last = Event("select_chapters", 1, 200)
    /\ jobs_db[1].status = "processing"
    /\ tasks[1].kind = "phase1" /\ tasks[1].state = "SUCCESS" /\ tasks[1].clips = <<>>

\* The status update_job_status reads off a Celery state.
StatusOfState(state, result) ==
    CASE state = "PENDING" -> "pending"
      [] state = "DOWNLOADING" -> "downloading"
      [] state = "TRANSCRIBING" -> "transcribing"
      [] state = "ANALYZING" -> "analyzing"
      [] state = "CHAPTERS_READY" -> "chapters_ready"
      [] state = "PROCESSING" -> "processing"
      [] state = "COMPLETED" -> "completed"
      [] state = "SUCCESS" -> result
      [] state = "FAILURE" -> "failed"

\* The status of job j once its task's Celery state is read.
PolledStatus(j) ==
    IF jobs_db[j].task_id = 0 THEN jobs_db[j].status
    ELSE StatusOfState(tasks[jobs_db[j].task_id].state, tasks[jobs_db[j].task_id].result)

\* C5 as stated: select_chapters accepts only a job in chapters_ready with a
\* non-empty list of ids of chapters.json; a request it rejects for an
\* unknown id or an empty list (the job's task stands at chapters_ready and
\* chapters.json is there) leaves the job's status, selected_chapters and
\* task_id unchanged and dispatches no task.
C5_RejectedSelectionLeavesStatus ==
    [][\A j \in DOMAIN jobs_db \cap DOMAIN jobs_db' :
          /\ ( /\ last' = Event("select_chapters", j, 400)
               /\ PolledStatus(j) = "chapters_ready"
               /\ disk[j].chapters \notin {NoFile, Partial} ) =>
                /\ jobs_db'[j].status = jobs_db[j].status
                /\ jobs_db'[j].selected_chapters = jobs_db[j].selected_chapters
                /\ jobs_db'[j].task_id = jobs_db[j].task_id
                /\ tasks' = tasks
          /\ last' = Event("select_chapters", j, 200) =>
                /\ jobs_db[j].status = "chapters_ready"
                /\ jobs_db'[j].selected_chapters # <<>>
                /\ Range(jobs_db'[j].selected_chapters) \subseteq Range(disk[j].chapters)]_vars

\* C5, amended: select_chapters first refreshes the job's status from its
\* task, as a poll does.  It accepts only if that refreshed status is
\* chapters_ready and chapter_ids is a non-empty list of ids of
\* chapters.json, and then stores the selection, sets processing and
\* dispatches one phase-2 task.  A rejected request leaves selected_chapters
\* and task_id unchanged, dispatches nothing, and leaves the status at the
\* refreshed one.
C5_RejectedSelectionOnlyRefreshes ==
    [][\A j \in DOMAIN jobs_db \cap DOMAIN jobs_db' :
          /\ last' = Event("select_chapters", j, 400) =>
                /\ jobs_db'[j].status = PolledStatus(j)
                /\ jobs_db'[j].selected_chapters = jobs_db[j].selected_chapters
                /\ jobs_db'[j].task_id = jobs_db[j].task_id
                /\ tasks' = tasks
          /\ last' = Event("select_chapters", j, 200) =>
                /\ PolledStatus(j) = "chapters_ready"
                /\ jobs_db'[j].selected_chapters # <<>>
                /\ Range(jobs_db'[j].selected_chapters) \subseteq Range(disk[j].chapters)
                /\ jobs_db'[j].status = "processing"
                /\ jobs_db'[j].task_id = Len(tasks')
                /\ tasks' = Append(tasks, NewTask(j, "phase2", jobs_db'[j].selected_chapters))]_vars

\* C5 witness: a request was rejected while the job waits in chapters_ready,
\* and nothing was selected or dispatched.
C5_Witness ==
    /\ 1 \in DOMAIN jobs_db
    /\ last = Event("select_chapters", 1, 400)
    /\ jobs_db[1].status = "chapters_ready"
    /\ jobs_db[1].selected_chapters = <<>>
    /\ Len(tasks) = 1

\* C7: on restart every job directory gets a record whose status follows
\* from the artifacts alone: clips.json gives completed with progress 100
\* and the clips; chapters.json without clips.json gives chapters_ready with
\* progress 60 and the chapters; neither gives failed.
C7_RecoveryByArtifacts ==
    [][last' = Event("restart", 0, 0) =>
         \A j \in JobIds :
            IF ~disk[j].exists THEN j \notin DOMAIN jobs_db'
            ELSE /\ j \in DOMAIN jobs_db'
                 /\ jobs_db'[j].task_id = 0
                 /\ disk[j].clips # NoFile =>
                       /\ jobs_db'[j].status = "completed"
                       /\ jobs_db'[j].progress = 100
                       /\ jobs_db'[j].clips = disk[j].clips
                 /\ disk[j].clips = NoFile /\ disk[j].chapters # NoFile =>
                       /\ jobs_db'[j].status = "chapters_ready"
                       /\ jobs_db'[j].progress = 60
                       /\ jobs_db'[j].chapters = disk[j].chapters
                 /\ disk[j].clips = NoFile /\ disk[j].chapters = NoFile =>
                       /\ jobs_db'[j].status = "failed"]_vars

\* The tasks of job j that are queued or running.
LiveTasks(j) == { t \in DOMAIN tasks : tasks[t].job = j /\ tasks[t].pc # "done" }

\* The render_job tasks of the clipper_ui job that are queued or running.
UiLiveRenders == { b \in DOMAIN ui_bg : ui_bg[b].kind = "render" /\ ui_bg[b].pc # "done" }

\* C8: for every job at most one worker task (single-phase, phase-1, phase-2
\* or render_job) is queued or running, under every interleaving of
\* create_job, select-chapters requests, polls and API restarts.
C8_AtMostOneTaskPerJob ==
    /\ \A j \in JobIds : Cardinality(LiveTasks(j)) <= 1
    /\ Cardinality(UiLiveRenders) <= 1

\* C9: once delete_job(j) has returned, j's directory does not exist and no
\* task of j ends successfully.
C9_DeletedJobLeavesNothing ==
    \A j \in deleted :
        /\ ~disk[j].exists
        /\ \A t \in DOMAIN tasks :
              tasks[t].job = j /\ tasks[t].pc # "done" => tasks[t].state # "SUCCESS"

----------------------------------------------------------------------------
(* Claims about Job objects: the clipper_ui backend and Pipeline.execute *)

TerminalStays(a, b) == a \in Terminal => b = a

\* C2: COMPLETED and FAILED are terminal: once a job's status is completed
\* or failed, no stage hook, Pipeline.execute step, worker state update or
\* status poll changes it to a different status.
C2_TerminalIsFinal ==
    [][/\ \A j \in DOMAIN jobs_db \cap DOMAIN jobs_db' :
             last'.op # "restart" =>
                 TerminalStays(jobs_db[j].status, jobs_db'[j].status)
       /\ ui_job.present /\ ui_job'.present =>
             TerminalStays(ui_job.status, ui_job'.status)
       /\ pl_job.present /\ pl_job'.present =>
             TerminalStays(pl_job.status, pl_job'.status)]_vars

\* The job of the API service runs the single-phase flow.
SinglePhaseJob(j) ==
    jobs_db[j].task_id # 0 /\ tasks[jobs_db[j].task_id].kind = "single"

\* Pipeline.execute runs all four stages: no stop_at, no skip_to, first run.
SinglePhaseRun ==
    /\ pl.pc \notin {"no_job", "idle"}
    /\ pl.run = 1
    /\ pl.stop_at = "none"
    /\ pl.skip_to = "none"

\* The step sets a status the single-phase flow allows: never chapters_ready,
\* and completed only from processing.
SinglePhaseStep(a, b) ==
    /\ b # "chapters_ready"
    /\ (b = "completed" /\ a # "completed") => a = "processing"

\* C4: in the single-phase flow (the process_video task, and Pipeline.execute
\* over download, transcribe, analyze, render with no stop_at) a job never
\* has status chapters_ready, and it reaches completed out of processing,
\* after analyzing.
C4_SinglePhaseSkipsThePause ==
    [][/\ \A j \in DOMAIN jobs_db \cap DOMAIN jobs_db' :
             SinglePhaseJob(j) /\ last'.op # "restart" =>
                 SinglePhaseStep(jobs_db[j].status, jobs_db'[j].status)
       /\ SinglePhaseRun /\ pl'.run = pl.run =>
             SinglePhaseStep(pl_job.status, pl_job'.status)]_vars

\* The chapter_ids of a request are a non-empty list of known chapter ids.
KnownNonEmpty(ids, chapters) == ids # <<>> /\ Range(ids) \subseteq Range(chapters)

\* C6: the clipper_ui select-chapters endpoint rejects a request with an
\* unknown chapter id or an empty chapter_ids list before render_job is
\* scheduled and before any field of the job is modified.
C6_UiRejectsBadSelection ==
    [][( /\ ui_last'.op = "select_chapters"
         /\ ui_last' # ui_last
         /\ ui_job.present
         /\ ~KnownNonEmpty(ui_last'.ids, ui_job.chapters) ) =>
            /\ ui_last'.code = 400
            /\ ui_bg' = ui_bg
            /\ ui_job' = ui_job]_vars

\* The stages whose execute was called by the current Pipeline.execute, in
\* call order.
ExecutedStages ==
    LET calls == SelectSeq(pl.log, LAMBDA e : e[1] = "execute")
    IN [i \in DOMAIN calls |-> calls[i][2]]

\* C10: Pipeline.execute(job, stop_at=S), with S a stage of the list, stops
\* after S: a run that returns without a failure has executed every stage
\* from the start index up to and including S, in list order, and no stage
\* after S.
C10_StopAtRunsTheStage ==
    ( /\ pl.pc = "returned"
      /\ pl.success
      /\ IndexOf(pl.stop_at) # 0
      /\ IndexOf(pl.stop_at) >= StartIdx(pl.skip_to) ) =>
        ExecutedStages = SubSeq(Stages, StartIdx(pl.skip_to), IndexOf(pl.stop_at))

----------------------------------------------------------------------------
(* Claims about Pipeline.execute, checked under SpecPl *)

\* A Pipeline.execute call is under way or has returned.
PlCalled == pl.pc \notin {"no_job", "idle"}

\* C11: Pipeline.execute(job, skip_to=S), with S a stage of the list, calls
\* no hook of a stage before S, begins with the validation of S, and its
\* result's skipped_stages are the names of the stages before S, in list
\* order.
C11_SkipToStartsAtTheStage ==
    (PlCalled /\ IndexOf(pl.skip_to) # 0) =>
        /\ \A k \in DOMAIN pl.log : IndexOf(pl.log[k][2]) >= IndexOf(pl.skip_to)
        /\ pl.log # <<>> => pl.log[1] = Called("validate", pl.skip_to)
        /\ pl.skipped = SubSeq(Stages, 1, IndexOf(pl.skip_to) - 1)

\* A run resumed at analyze has returned after executing it.
C11_Witness ==
    /\ pl.pc = "returned"
    /\ pl.skip_to = "analyze"
    /\ pl.skipped = <<"download", "transcribe">>
    /\ Len(ExecutedStages) >= 1
    /\ ExecutedStages[1] = "analyze"

\* C12: when the validate of stage k returns False, Pipeline.execute returns
\* at once with success False and an error naming stage k and the reason;
\* the job is left as it was when stage k-1 finished (nothing between the
\* end of a stage and the next validation touches it), and no pre_execute,
\* execute or post_execute of stage k or of a later stage has been called.
C12_FailedValidationStopsTheRun ==
    [][/\ pl.pc \in {"head", "validate"} => pl_job' = pl_job
       /\ (pl.pc = "validate" /\ ~StageValid(PlStage, pl_job)) =>
             /\ pl'.pc = "returned"
             /\ ~pl'.success
             /\ pl'.error = <<"validation failed", PlStage, ValidateReason(PlStage)>>
             /\ \A k \in DOMAIN pl'.log :
                   IF pl'.log[k][1] = "validate"
                   THEN IndexOf(pl'.log[k][2]) <= pl.i
                   ELSE IndexOf(pl'.log[k][2]) < pl.i]_vars

\* A run resumed at analyze, on a job that was only downloaded, has returned
\* with the validation failure of analyze.
C12_Witness ==
    /\ pl.pc = "returned"
    /\ pl.error = <<"validation failed", "analyze", "Job must have transcription data">>
    /\ pl_job.status = "downloading"
    /\ pl_job.video

\* C13: when a hook of a stage raises, the job becomes FAILED with job.error
\* equal to the exception message, the run returns with success False, and
\* no later stage is validated or executed.
C13_RaisingStageFailsTheJob ==
    [][(PlCalled /\ pl.pc # "returned" /\ pl'.error[1] = "failed") =>
          /\ pl'.pc = "returned"
          /\ ~pl'.success
          /\ pl'.log = pl.log \/ pl'.log = Append(pl.log, Called("post_execute", PlStage))
          /\ pl_job'.status = "failed"
          /\ pl_job'.error = pl'.error[3]]_vars

\* C14: every Pipeline.execute call that returns success False leaves the
\* job FAILED with a non-empty error message.
C14_FailedRunFailsTheJob ==
    (pl.pc = "returned" /\ ~pl.success) =>
        /\ pl_job.status = "failed"
        /\ pl_job.error \notin {"none", ""}

\* C15: when the encoder fails for a chapter (RenderResult.success False) the
\* job ends FAILED: neither RenderStage.execute nor render_job sets COMPLETED
\* after a clip loop in which a chapter's clip was left out.
C15_EncoderFailureFailsTheJob ==
    [][/\ (pl.pc = "render_loop" /\ Len(pl.clips) < pl.idx) =>
             pl_job'.status # "completed"
       /\ \A b \in DOMAIN ui_bg \cap DOMAIN ui_bg' :
             ( /\ ui_bg[b].kind = "render" /\ ui_bg[b].pc = "render"
               /\ Len(ui_job.clips) < ui_bg[b].idx ) =>
                 ui_job'.status # "completed"]_vars

----------------------------------------------------------------------------
(* Claims about the download retries of the Celery tasks, checked under SpecApiUp *)

\* The download loop of task t is at its last attempt.
LastAttempt(t) == tasks[t].pc = "download" /\ tasks[t].attempt = max_retries - 1

\* What holds of the retry loop whether or not the job was deleted: at most
\* max_retries attempts, TRANSCRIBING only after a download that succeeded,
\* nothing published by a task that has ended.
RetriesBounded(t) ==
    /\ tasks[t].attempt < max_retries
    /\ (tasks[t].pc = "download" /\ tasks'[t].pc = "download" /\ tasks'[t] # tasks[t]) =>
          tasks'[t].attempt = tasks[t].attempt + 1
    /\ (tasks[t].pc = "download" /\ tasks'[t].pc = "transcribe") => disk'[tasks[t].job].media
    /\ (tasks'[t].state = "TRANSCRIBING" /\ tasks[t].state # "TRANSCRIBING") =>
          tasks[t].pc = "transcribe"
    /\ tasks[t].pc = "done" => tasks'[t] = tasks[t]

\* C16 (as stated): process_video and process_video_phase1 attempt the
\* download at most 3 times per run; only a successful attempt lets the task
\* publish TRANSCRIBING; when the third attempt fails too the task publishes
\* FAILED and publishes nothing after it.
C16_DownloadRetriesThenFailed ==
    [][\A t \in DOMAIN tasks :
          /\ RetriesBounded(t)
          /\ (LastAttempt(t) /\ tasks'[t].pc = "done") =>
                tasks'[t].state = "FAILURE" /\ tasks'[t].result = "failed"]_vars

\* C16 (amended): as above, except that a task whose job directory was
\* deleted during the download ends in Celery's FAILURE without publishing
\* FAILED, because the log_progress of its except block raises.
C16_DownloadRetriesThenFailure ==
    [][\A t \in DOMAIN tasks :
          /\ RetriesBounded(t)
          /\ (LastAttempt(t) /\ tasks'[t].pc = "done") =>
                /\ tasks'[t].state = "FAILURE"
                /\ tasks'[t].result = IF disk[tasks[t].job].exists THEN "failed"
                                      ELSE "crashed"]_vars

\* Two attempts of a phase-1 task have failed and its job directory is
\* still there: the third attempt is next.
C16_Witness ==
    \E t \in DOMAIN tasks :
        /\ LastAttempt(t)
        /\ tasks[t].kind = "phase1"
        /\ tasks[t].state = "DOWNLOADING"
        /\ disk[tasks[t].job].exists

----------------------------------------------------------------------------
(* Claims about chapter and clip detection, checked under SpecAn and SpecCa *)

\* The fallback of the hybrid function that was called, applied directly to
\* the arguments of the call.
DirectFallback ==
    IF an.fn = "chapters" THEN GenerateFallbackChapters(an.segments, an.duration)
    ELSE AnalyzeTranscriptForClips(an.segments, an.duration)

\* The AI strategy was not called, raised, or returned no entry.
AiGaveNothing == "ai" \notin Range(an.calls) \/ an.ai.raised \/ an.ai.value = <<>>

\* C17: when the AI path returns no usable entry or raises,
\* smart_chapter_detection returns exactly generate_fallback_chapters(segments,
\* duration) with method 'rule-based' (smart_detect_clips: exactly
\* analyze_transcript_for_clips(segments, target_duration)); the method is
\* 'ai' only when the returned list is the non-empty AI result.
C17_FallbackEqualsDirectCall ==
    an.pc = "returned" =>
        /\ AiGaveNothing => an.result = DirectFallback /\ an.method = "rule-based"
        /\ an.method = "ai" =>
              /\ ~AiGaveNothing
              /\ an.result = an.ai.value
              /\ an.fn = "chapters" =>
                    an.ai = AnalyzeChaptersWithAi(an.segments, an.duration, an.cfg,
                                                  an.outcomes[1])
        /\ an.method \in {"ai", "rule-based"}

\* smart_chapter_detection has returned the fallback chapters after the AI
\* strategy raised.
C17_Witness ==
    /\ an.pc = "returned"
    /\ an.fn = "chapters"
    /\ an.calls = <<"ai", "fallback">>
    /\ an.ai.raised
    /\ an.method = "rule-based"
    /\ Len(an.result) = 2

\* C18: ContentAnalyzer.analyze_chapters never raises because of the AI path:
\* for every content the provider returns it gives back either the chapters
\* built from the valid entries or the result of _rule_based_analyze on the
\* same transcription and duration.
C18_AnalyzerNeverRaises ==
    ca.pc # "idle" =>
        /\ ~ca.result.raised
        /\ \/ ca.result.by = "ai" /\ ca.result.chapters # <<>>
           \/ ca.result = RuleBasedAnalyze(ca.result.transcription, ca.result.duration)

\* C19: whenever use_ai is true and the selected provider has its API key
\* set, smart_chapter_detection calls the AI strategy first, and the
\* fallback only after the AI strategy returned nothing or failed.
C19_AiFirstWhenConfigured ==
    ( /\ an.pc = "returned"
      /\ an.fn = "chapters"
      /\ an.use_ai
      /\ an.cfg.provider \in an.cfg.keys ) =>
        /\ an.calls # <<>>
        /\ an.calls[1] = "ai"
        /\ "fallback" \in Range(an.calls) => (an.ai.raised \/ an.ai.value = <<>>)

\* C20: every chapter smart_chapter_detection returns lasts between
\* min_chapter_duration and max_chapter_duration, except a last chapter
\* whose end was clamped to the video duration.
C20_ChapterDurationsInRange ==
    (an.pc = "returned" /\ an.fn = "chapters") =>
        \A i \in DOMAIN an.result :
            \/ /\ min_chapter_duration <= an.result[i].duration
               /\ an.result[i].duration <= max_chapter_duration
            \/ /\ i = Len(an.result)
               /\ an.result[i].end = an.duration

\* The entries of a chapter response that are valid on their own: an object
\* with two MM:SS timestamps at least 30 seconds apart.
ValidChapterEntry(item) ==
    /\ item.kind = "object"
    /\ item.start_time.kind = "mmss"
    /\ item.end_time.kind = "mmss"
    /\ item.end_time.secs - item.start_time.secs >= 30

\* The AI strategy of smart_chapter_detection got a JSON array from a
\* configured provider and parsed it.
ChapterArrayParsed ==
    /\ an.fn = "chapters"
    /\ an.calls # <<>>
    /\ an.calls[1] = "ai"
    /\ an.segments # <<>>
    /\ GetAiClient(an.cfg) # "none"
    /\ an.outcomes[1].kind = "response"
    /\ an.outcomes[1].response.kind = "array"

\* C21: every chapter smart_chapter_detection returns, to be written to
\* chapters.json, has 0 <= start < end <= video duration and
\* duration = end - start, whatever the AI response and the video duration.
C21_ChaptersInsideTheVideo ==
    (an.fn = "chapters" /\ an.pc = "returned") =>
        \A i \in DOMAIN an.result :
            /\ 0 <= an.result[i].start
            /\ an.result[i].start < an.result[i].end
            /\ an.result[i].end <= an.duration
            /\ an.result[i].duration = an.result[i].end - an.result[i].start

\* C22: when the array of an AI chapter response holds valid and malformed
\* entries, parse_chapter_response returns a chapter for every valid entry
\* of it; a malformed entry is dropped alone.
C22_BadEntryDroppedAlone ==
    ChapterArrayParsed =>
        \A i \in DOMAIN an.outcomes[1].response.items :
            ValidChapterEntry(an.outcomes[1].response.items[i]) =>
                \E k \in DOMAIN an.ai.value : an.ai.value[k].id = i

\* C23: no two candidates one smart_detect_clips call returns, by either
\* method, have the same 30-second bucket floor(start / 30).
C23_OneClipPerBucket ==
    (an.fn = "clips" /\ an.pc = "returned") =>
        \A i, j \in DOMAIN an.result :
            i # j => an.result[i].start \div 30 # an.result[j].start \div 30

----------------------------------------------------------------------------
(* Claims about the layout of the clips, checked under SpecLay *)

AllZero(face_counts) == \A k \in DOMAIN face_counts : face_counts[k] = 0

\* C24: the layout of a clip follows the largest of its three sampled face
\* counts: a sample of 2 or more gives "split"; no sample above 1 and one of
\* exactly 1 gives "single"; whatever the three counts and the layout
\* before.
C24_LayoutFollowsTheMaximum ==
    \A i \in DOMAIN lay.clips :
        LET counts == lay.clips[i].face_counts
        IN /\ (\E k \in DOMAIN counts : counts[k] >= 2) => lay.clips[i].layout = "split"
           /\ ((\A k \in DOMAIN counts : counts[k] <= 1) /\ ~AllZero(counts)) =>
                 lay.clips[i].layout = "single"

\* A clip sampled as [0, 1, 2] was rendered split, and the next one, with a
\* single face in one sample only, was rendered single although the
\* remembered layout was "split".
C24_Witness ==
    /\ Len(lay.clips) = 2
    /\ lay.options.other
    /\ lay.clips[1].face_counts = <<0, 1, 2>>
    /\ lay.clips[1].layout = "split"
    /\ lay.clips[2].face_counts = <<0, 1, 0>>
    /\ lay.clips[2].layout = "single"

\* C25: over the clips one process_selected_chapters task renders, a clip
\* whose three samples are all 0 gets the layout of the clip before it
\* ("single" for the first clip), and the layout remembered for the next
\* clip is the layout just used.
C25_EmptySamplesKeepTheLayout ==
    lay.pc \in {"loop", "completed"} =>
        /\ \A i \in DOMAIN lay.clips :
              AllZero(lay.clips[i].face_counts) =>
                  lay.clips[i].layout = IF i = 1 THEN "single" ELSE lay.clips[i - 1].layout
        /\ lay.clips # <<>> =>
              lay.options.last_layout = lay.clips[Len(lay.clips)].layout

----------------------------------------------------------------------------
(* Claims about smart_reframe_video, checked under SpecRf *)

\* C26: the crop is no larger than the source frame, and on every frame
\* written the crop window lies inside it: 0 <= crop_x <= orig_w - crop_w
\* and 0 <= crop_y <= orig_h - crop_h, whatever faces were detected.
C26_CropInsideTheFrame ==
    rf.opened =>
        /\ rf.crop_w <= rf.orig_w
        /\ rf.crop_h <= rf.orig_h
        /\ \A c \in rf.crops :
              /\ 0 <= c[1] /\ c[1] <= rf.orig_w - rf.crop_w
              /\ 0 <= c[2] /\ c[2] <= rf.orig_h - rf.crop_h

\* A frame was written whose running center put the window outside the
\* frame before the clamp.
C26_Witness ==
    /\ rf.frame_count > 0
    /\ \/ UnclampedCropPos(rf.last_center_x, rf.crop_w, rf.orig_w) < 0
       \/ UnclampedCropPos(rf.last_center_x, rf.crop_w, rf.orig_w) > rf.orig_w - rf.crop_w
       \/ UnclampedCropPos(rf.last_center_y, rf.crop_h, rf.orig_h) < 0
       \/ UnclampedCropPos(rf.last_center_y, rf.crop_h, rf.orig_h) > rf.orig_h - rf.crop_h

\* One coordinate of the running center going from a to b under a face
\* center c: at c it stays, off c it comes closer and stops at c at most.
MovesToward(a, b, c) ==
    /\ a = c => b = c
    /\ a < c => (a < b /\ b <= c)
    /\ a > c => (c <= b /\ b < a)

\* The detection ran on the frame just read and has given the face center c
\* every time so far.
SampledAlways(c) ==
    /\ rf'.frame_count = rf.frame_count + 1
    /\ rf'.detected = c
    /\ rf'.observed = {c}
    /\ c # NoFace

\* C27: when every sampled frame reports the same face center, each of
\* them moves the running center, as truncated, closer to it and never
\* past it, so that the center arrives there: the blend is a function of
\* the center alone, and a center it leaves where it was stays off the
\* face for the rest of the clip.
C27_CenterConvergesOnTheFace ==
    [][\A c \in rf'.observed :
          SampledAlways(c) =>
              /\ MovesToward(rf.last_center_x, rf'.last_center_x, c[1])
              /\ MovesToward(rf.last_center_y, rf'.last_center_y, c[2])]_vars

NoFaceSoFar(r) == r.observed \subseteq {NoFace}

\* The frame just read left the running center where it was whenever the
\* detection was not run on it or found no face; as long as no face was
\* found on any frame the center is (orig_w // 2, orig_h // 2) and every
\* frame written has the one crop of that center.
NoFaceStep ==
    /\ (rf'.frame_count = rf.frame_count + 1 /\ rf'.detected \in {NoFace, NotRun}) =>
          /\ rf'.last_center_x = rf.last_center_x
          /\ rf'.last_center_y = rf.last_center_y
    /\ NoFaceSoFar(rf') =>
          /\ rf'.last_center_x = rf'.orig_w \div 2
          /\ rf'.last_center_y = rf'.orig_h \div 2
          /\ rf'.crops \subseteq
                {<<Max(0, Min(rf'.orig_w \div 2 - rf'.crop_w \div 2, rf'.orig_w - rf'.crop_w)),
                   Max(0, Min(rf'.orig_h \div 2 - rf'.crop_h \div 2, rf'.orig_h - rf'.crop_h))>>}

----------------------------------------------------------------------------
(* Claims about the viral score, checked under SpecVs *)

\* 50 + d + min(5 * |hooks|, 15) + q + t + 2 * k of a chapter, the sum
\* without the points of the confidence.
ScoreBeforeConfidence(chapter) ==
    LET d == CASE 30 <= chapter.duration /\ chapter.duration <= 60 -> 20
               [] 60 < chapter.duration /\ chapter.duration <= 90 -> 10
               [] chapter.duration < 20 -> -20
               [] OTHER -> 0
        q == IF \E i \in DOMAIN chapter.summary.text : chapter.summary.text[i] = "why?"
             THEN 5 ELSE 0
        t == IF Len(chapter.title) <= 5 THEN 5 ELSE 0
        k == Cardinality({ n \in DOMAIN viral_keywords :
                             Contains(LowerText(chapter.title \o chapter.summary.text),
                                      viral_keywords[n]) })
    IN 50 + d + Min(5 * chapter.hooks, 15) + q + t + 2 * k

Clamped(score) == IF score < 0 THEN 0 ELSE IF score > 100 THEN 100 ELSE score

----------------------------------------------------------------------------
(* Claims about repeated clip analysis, checked under SpecDt *)

----------------------------------------------------------------------------
(* Progress of a job *)

\* p / q <= r / s for two progress values with positive denominators.
FracLeq(a, b) == a[1] * b[2] <= b[1] * a[2]

\* The statuses a stage sets when its work is done, and FAILED, which keeps
\* the progress the job had.
StageDoneStatuses == {"downloading", "transcribing", "chapters_ready", "completed", "failed"}

----------------------------------------------------------------------------
(* Claims about word_level_segments, checked under SpecWl *)

\* The words the loop does not skip, with their text stripped.
SpokenWords(transcription) ==
    LET kept == SelectSeq(transcription, LAMBDA w : Strip(w.word) # <<>>)
    IN [i \in 1..Len(kept) |-> [kept[i] EXCEPT !.word = Strip(@)]]

\* The number of words in the first k segments.
RECURSIVE WordsBefore(_, _)
WordsBefore(segments, k) ==
    IF k = 0 THEN 0 ELSE WordsBefore(segments, k - 1) + segments[k].words

\* The words a..c of W, taken as one segment, meet a closing condition.
ClosesAt(W, a, c, max_chars, max_duration) ==
    LET text == JoinWords([i \in 1..(c - a + 1) |-> W[a + i - 1].word])
        end == IF W[c].end = NoKey THEN W[a].start ELSE W[c].end
    IN \/ Len(text) >= max_chars
       \/ end - W[a].start >= max_duration
       \/ W[c].word[Len(W[c].word)] \in {".", "!", "?", ","}

----------------------------------------------------------------------------
(* Claims about process_selected_chapters, checked under SpecApi *)

\* Task t is in process_single_chapter for its k-th selected chapter.
InChapter(t) == tasks[t].kind = "phase2" /\ tasks[t].pc = "chapter"

\* What a phase-2 task does whether or not its job was deleted: a chapter
\* either is processed, which adds its clip, or ends the task in FAILURE
\* without touching the disk; an ended task does nothing more; COMPLETED is
\* published only after every selected chapter was processed and clips.json
\* was written.
ChapterLoopStops(t) ==
    /\ (InChapter(t) /\ tasks'[t] # tasks[t] /\ tasks'[t].pc # "done") =>
          /\ tasks'[t].pc = "render"
          /\ tasks'[t].clips = Append(tasks[t].clips, tasks[t].chapters[tasks[t].idx])
    /\ (InChapter(t) /\ tasks'[t].pc = "done") =>
          /\ tasks'[t].state = "FAILURE"
          /\ disk' = disk
    /\ tasks[t].pc = "done" => tasks'[t] = tasks[t]
    /\ (tasks[t].kind = "phase2" /\ tasks'[t].state = "COMPLETED"
                                 /\ tasks[t].state # "COMPLETED") =>
          /\ Len(tasks[t].clips) = Len(tasks[t].chapters)
          /\ disk[tasks[t].job].exists => disk[tasks[t].job].clips # NoFile

\* C33 (as stated): when processing of the k-th selected chapter raises, no
\* later chapter is processed, clips.json is not written, the task publishes
\* FAILED and never COMPLETED, and the files of the chapters before k are
\* on disk.
C33_FailedChapterPublishesFailed ==
    [][\A t \in DOMAIN tasks :
          /\ ChapterLoopStops(t)
          /\ (InChapter(t) /\ tasks'[t].pc = "done") =>
                /\ tasks'[t].result = "failed"
                /\ Range(tasks[t].clips) \subseteq disk'[tasks[t].job].clipFiles]_vars

\* C33 (amended): as above while the job directory exists; a task whose job
\* was deleted meanwhile ends in Celery's FAILURE without publishing FAILED,
\* and the files of the earlier chapters went with the directory.
C33_FailedChapterStopsTheTask ==
    [][\A t \in DOMAIN tasks :
          /\ ChapterLoopStops(t)
          /\ (InChapter(t) /\ tasks'[t].pc = "done") =>
                IF disk[tasks[t].job].exists
                THEN /\ tasks'[t].result = "failed"
                     /\ Range(tasks[t].clips) \subseteq disk'[tasks[t].job].clipFiles
                     /\ disk'[tasks[t].job].clips = disk[tasks[t].job].clips
                ELSE tasks'[t].result = "crashed"]_vars

\* The second of two selected chapters raised after the first was processed:
\* the task has failed, the first clip is on disk, clips.json is not.
C33_Witness ==
    \E t \in DOMAIN tasks :
        /\ tasks[t].kind = "phase2"
        /\ tasks[t].pc = "done"
        /\ tasks[t].result = "failed"
        /\ Len(tasks[t].chapters) = 2
        /\ Len(tasks[t].clips) = 1
        /\ Range(tasks[t].clips) \subseteq disk[tasks[t].job].clipFiles
        /\ disk[tasks[t].job].clips = NoFile

----------------------------------------------------------------------------
(* Claims about the candidates of analyze_transcript_for_clips, checked
   under SpecDt *)

\* The score the scoring rules give segment k: the weights of the keywords
\* its lower-cased text contains, 2 for '?', 1 for '!', 1 for 3 to 10 words
\* and 1 for one of the first five segments.
ExpectedScore(segments, k) ==
    LET text == segments[k].text
        lower == LowerCase(text)
        has(keyword) == Contains(lower, keyword)
    IN (IF has(<<"a", "p", "a">>) THEN 2 ELSE 0)
       + (IF has(<<"k", "a", "p", "a", "n">>) THEN 2 ELSE 0)
       + (IF has(<<"l", "u", "a", "r", " ", "b", "i", "a", "s", "a">>) THEN 3 ELSE 0)
       + (IF has(<<"t", "i", "p", "s">>) THEN 3 ELSE 0)
       + (IF has(<<"r", "a", "h", "a", "s", "i", "a">>) THEN 4 ELSE 0)
       + (IF "?" \in Range(text) THEN 2 ELSE 0)
       + (IF "!" \in Range(text) THEN 1 ELSE 0)
       + (IF WordCount(text) \in 3..10 THEN 1 ELSE 0)
       + (IF k <= 5 THEN 1 ELSE 0)

\* The start of the candidate a segment would give, and its 30-second bucket.
StartTimeOf(segments, k) == Max(0, segments[k].start - 2)

BucketOf(segments, k) == StartTimeOf(segments, k) \div 30

\* Segment i comes before segment j in the order of selection: by higher
\* score, and by transcript order among equal scores.
Before(segments, i, j) ==
    \/ ExpectedScore(segments, i) > ExpectedScore(segments, j)
    \/ ExpectedScore(segments, i) = ExpectedScore(segments, j) /\ i < j

\* The scoring segment of candidate c: the first segment, in the order of
\* selection, of c's bucket.
ScoringSegment(segments, c) ==
    CHOOSE k \in DOMAIN segments :
        /\ BucketOf(segments, k) = c.start \div 30
        /\ \A j \in DOMAIN segments \ {k} :
              BucketOf(segments, j) = c.start \div 30 => Before(segments, k, j)

C35_CandidateFields ==
    dt # <<>> =>
        LET call == dt[Len(dt)] IN
        \A a \in DOMAIN call.clips :
            LET c == call.clips[a]
                k == ScoringSegment(call.segments, c)
            IN /\ c.start = StartTimeOf(call.segments, k)
               /\ c.start = IF call.segments[k].start >= 2
                            THEN call.segments[k].start - 2 ELSE 0
               /\ c.duration = call.target_duration
               /\ c.score = ExpectedScore(call.segments, k)

\* The best candidate of the long transcript comes from its seventh
\* segment, "Kapan?" at 182: two keywords and '?', no intro bonus; the last
\* of the nine comes from a segment of the intro that scores nothing else.
C35_Witness ==
    \E n \in DOMAIN dt :
        /\ dt[n].segments = LongTranscript
        /\ dt[n].target_duration = 60
        /\ dt[n].clips[1] = [start |-> 180, duration |-> 60, score |-> 6]
        /\ dt[n].clips[3] = [start |-> 0, duration |-> 60, score |-> 1]

----------------------------------------------------------------------------
(* Claims about the fallback chapters, checked under SpecAn *)

\* C36: for every video duration the chapters generate_fallback_chapters
\* returns split the full duration: the first starts at 0, each next one
\* starts where the one before it ends, and the last one ends at the video
\* duration.
C36_FallbackSplitsTheVideo ==
    (an.pc = "returned" /\ an.fn = "chapters" /\ an.method = "rule-based") =>
        /\ an.result = GenerateFallbackChapters(an.segments, an.duration)
        /\ an.result # <<>>
        /\ an.result[1].start = 0
        /\ \A i \in 1..(Len(an.result) - 1) : an.result[i + 1].start = an.result[i].end
        /\ an.result[Len(an.result)].end = an.duration

----------------------------------------------------------------------------
(* Claims about the windows of the clip candidates, checked under SpecDt *)

\* C37: the time windows [start, start + target_duration) of the candidates
\* one analyze_transcript_for_clips call returns do not overlap one another.
C37_WindowsDoNotOverlap ==
    \A n \in DOMAIN dt :
        \A a, b \in DOMAIN dt[n].clips :
            a # b =>
                \/ dt[n].clips[a].start + dt[n].target_duration <= dt[n].clips[b].start
                \/ dt[n].clips[b].start + dt[n].target_duration <= dt[n].clips[a].start

----------------------------------------------------------------------------
(* Claims about artifacts and recovery, checked under SpecApi *)

\* A file that is there and completely written.
Written(file) == file \notin {NoFile, Partial}

\* Task t publishes state s in this step.
Publishes(t, s) == tasks'[t].state = s /\ tasks[t].state # s

\* C38: a worker writes the artifact recovery keys on before it publishes
\* the matching state: chapters.json, segments.json and metadata.json are
\* completely written before CHAPTERS_READY is published, clips.json is
\* written after every selected chapter was processed and before COMPLETED
\* is published; so a job seen as chapters_ready or completed has the
\* matching file on disk unless the job was deleted.
C38_ArtifactBeforeState ==
    [][/\ \A t \in DOMAIN tasks :
            LET d == disk[tasks[t].job] IN
            /\ (Publishes(t, "CHAPTERS_READY") /\ tasks[t].job \notin deleted) =>
                  /\ d.chapters = tasks[t].chapters
                  /\ d.segments = "written"
                  /\ d.metadata = "written"
            /\ (Publishes(t, "COMPLETED") /\ tasks[t].job \notin deleted) =>
                  /\ Written(d.clips)
                  /\ d.clips = tasks[t].clips
       /\ \A j \in DOMAIN jobs_db' \ deleted' :
            /\ jobs_db'[j].status = "chapters_ready" => Written(disk'[j].chapters)
            /\ jobs_db'[j].status = "completed" => Written(disk'[j].clips)]_vars

\* The place of chapter id x in chapters.json.
PlaceIn(chapters, x) == CHOOSE i \in DOMAIN chapters : chapters[i] = x

\* C39: a successful process_selected_chapters run processes the selected
\* chapters one after another (chapter k only after the k - 1 before it) and
\* writes to clips.json exactly one clip per distinct selected chapter id,
\* in the order of chapters.json, whatever the order or repetition of the
\* ids in the selection.
C39_OneClipPerSelectedChapter ==
    [][\A t \in DOMAIN tasks :
          LET j == tasks[t].job
              w == disk'[j].clips
          IN /\ (InChapter(t) /\ tasks'[t].pc = "render") =>
                   /\ Len(tasks[t].clips) = tasks[t].idx - 1
                   /\ tasks'[t].clips = Append(tasks[t].clips, tasks[t].chapters[tasks[t].idx])
             /\ ( /\ tasks[t].kind = "phase2"
                  /\ tasks[t].pc = "dump_clips"
                  /\ tasks'[t].pc = "publish_completed"
                  /\ disk[j].exists ) =>
                   /\ Written(w)
                   /\ Written(disk[j].chapters)
                   /\ Range(w) = Range(tasks[t].ids)
                   /\ \A a, b \in DOMAIN w :
                         a < b => PlaceIn(disk[j].chapters, w[a]) < PlaceIn(disk[j].chapters, w[b])
             /\ (tasks[t].kind = "phase2" /\ tasks'[t].result = "completed"
                                          /\ tasks[t].result # "completed") =>
                   /\ Range(tasks'[t].clips) = Range(tasks[t].ids)
                   /\ Len(tasks'[t].clips) = Cardinality(Range(tasks[t].ids))]_vars

\* clips.json holds the clips of chapters 1 and 2, in that order, for a
\* selection that named chapter 2 first.
C39_Witness ==
    \E t \in DOMAIN tasks :
        /\ tasks[t].kind = "phase2"
        /\ tasks[t].pc = "publish_completed"
        /\ tasks[t].ids = <<2, 1>>
        /\ disk[tasks[t].job].clips = <<1, 2>>

\* The statuses a job rests in.
StableStatuses == {"completed", "chapters_ready", "failed"}

\* C40: a job that was completed, chapters_ready or failed before the API
\* restarted, and whose directory still exists, is given that same status
\* by load_jobs_from_disk, in the single-phase and in the two-phase flow.
C40_RestartKeepsStableStatus ==
    [][last' = Event("restart", 0, 0) =>
         \A j \in DOMAIN jobs_db :
            (jobs_db[j].status \in StableStatuses /\ disk[j].exists) =>
                /\ j \in DOMAIN jobs_db'
                /\ jobs_db'[j].status = jobs_db[j].status]_vars

====
